---------------------------- MODULE Spec2Model ----------------------------
(***************************************************************************)
(* Model of the Schema.ICU pipeline engine (src/src/engine/                *)
(* PipelineEngine.js) and of its policy gate (PolicyEngine, in             *)
(* src/unnamed/part_004).                                                   *)
(*                                                                         *)
(* The state holds strings; Chars gives the characters of a string to the  *)
(* operators that match it character by character.                         *)
(***************************************************************************)
EXTENDS Integers, Sequences, FiniteSets, TLC

(***************************************************************************)
(* Bounds of the model.                                                    *)
(***************************************************************************)
MaxSteps == 3

(***************************************************************************)
(* The characters of the strings that the code matches: targets, glob      *)
(* patterns, commands and command patterns.                                *)
(***************************************************************************)
CharTable ==
    ("**/.env" :> <<"*", "*", "/", ".", "e", "n", "v">>) @@
    ("**/.env.*" :> <<"*", "*", "/", ".", "e", "n", "v", ".", "*">>) @@
    ("**/secrets/**" :> <<"*", "*", "/", "s", "e", "c", "r", "e", "t", "s", "/", "*", "*">>) @@
    ("**/credentials/**" :> <<"*", "*", "/", "c", "r", "e", "d", "e", "n", "t", "i", "a", "l", "s", "/", "*", "*">>) @@
    ("**/*.key" :> <<"*", "*", "/", "*", ".", "k", "e", "y">>) @@
    ("**/*.pem" :> <<"*", "*", "/", "*", ".", "p", "e", "m">>) @@
    ("**/id_rsa*" :> <<"*", "*", "/", "i", "d", "_", "r", "s", "a", "*">>) @@
    ("rm -rf /" :> <<"r", "m", " ", "-", "r", "f", " ", "/">>) @@
    ("dd if=" :> <<"d", "d", " ", "i", "f", "=">>) @@
    ("mkfs\\." :> <<"m", "k", "f", "s", "\\", ".">>) @@
    ("wget.*\\|.*sh" :> <<"w", "g", "e", "t", ".", "*", "\\", "|", ".", "*", "s", "h">>) @@
    ("curl.*\\|.*bash" :> <<"c", "u", "r", "l", ".", "*", "\\", "|", ".", "*", "b", "a", "s", "h">>) @@
    (":(){ :|:& };:" :> <<":", "(", ")", "{", " ", ":", "|", ":", "&", " ", "}", ";", ":">>) @@
    ("chmod -R 777 /" :> <<"c", "h", "m", "o", "d", " ", "-", "R", " ", "7", "7", "7", " ", "/">>) @@
    ("secrets/api.key" :> <<"s", "e", "c", "r", "e", "t", "s", "/", "a", "p", "i", ".", "k", "e", "y">>) @@
    ("src/newfile.js" :> <<"s", "r", "c", "/", "n", "e", "w", "f", "i", "l", "e", ".", "j", "s">>) @@
    ("ls -la" :> <<"l", "s", " ", "-", "l", "a">>) @@
    ("src/**" :> <<"s", "r", "c", "/", "*", "*">>) @@
    ("generated-s1.txt" :> <<"g", "e", "n", "e", "r", "a", "t", "e", "d", "-", "s", "1", ".", "t", "x", "t">>) @@
    ("generated-s2.txt" :> <<"g", "e", "n", "e", "r", "a", "t", "e", "d", "-", "s", "2", ".", "t", "x", "t">>) @@
    ("generated-s3.txt" :> <<"g", "e", "n", "e", "r", "a", "t", "e", "d", "-", "s", "3", ".", "t", "x", "t">>) @@
    ("generated-s4.txt" :> <<"g", "e", "n", "e", "r", "a", "t", "e", "d", "-", "s", "4", ".", "t", "x", "t">>) @@
    ("generated-s5.txt" :> <<"g", "e", "n", "e", "r", "a", "t", "e", "d", "-", "s", "5", ".", "t", "x", "t">>) @@
    ("generated-s6.txt" :> <<"g", "e", "n", "e", "r", "a", "t", "e", "d", "-", "s", "6", ".", "t", "x", "t">>) @@
    ("generated-s7.txt" :> <<"g", "e", "n", "e", "r", "a", "t", "e", "d", "-", "s", "7", ".", "t", "x", "t">>) @@
    ("generated-s8.txt" :> <<"g", "e", "n", "e", "r", "a", "t", "e", "d", "-", "s", "8", ".", "t", "x", "t">>) @@
    ("generated-s9.txt" :> <<"g", "e", "n", "e", "r", "a", "t", "e", "d", "-", "s", "9", ".", "t", "x", "t">>) @@
    (".env" :> <<".", "e", "n", "v">>) @@
    ("server.key" :> <<"s", "e", "r", "v", "e", "r", ".", "k", "e", "y">>) @@
    ("cert.pem" :> <<"c", "e", "r", "t", ".", "p", "e", "m">>) @@
    ("credentials/token" :> <<"c", "r", "e", "d", "e", "n", "t", "i", "a", "l", "s", "/", "t", "o", "k", "e", "n">>) @@
    ("project/.env" :> <<"p", "r", "o", "j", "e", "c", "t", "/", ".", "e", "n", "v">>) @@
    ("src/.env" :> <<"s", "r", "c", "/", ".", "e", "n", "v">>) @@
    ("a/b/.env" :> <<"a", "/", "b", "/", ".", "e", "n", "v">>) @@
    ("src/file.js" :> <<"s", "r", "c", "/", "f", "i", "l", "e", ".", "j", "s">>) @@
    ("src/app.js" :> <<"s", "r", "c", "/", "a", "p", "p", ".", "j", "s">>) @@
    ("project/secrets/api.key" :> <<"p", "r", "o", "j", "e", "c", "t", "/", "s", "e", "c", "r", "e", "t", "s", "/", "a", "p", "i", ".", "k", "e", "y">>) @@
    ("config/secrets/key.pem" :> <<"c", "o", "n", "f", "i", "g", "/", "s", "e", "c", "r", "e", "t", "s", "/", "k", "e", "y", ".", "p", "e", "m">>) @@
    ("*.js" :> <<"*", ".", "j", "s">>) @@
    ("src/*" :> <<"s", "r", "c", "/", "*">>) @@
    ("src/?pp.js" :> <<"s", "r", "c", "/", "?", "p", "p", ".", "j", "s">>) @@
    ("src/**/app.js" :> <<"s", "r", "c", "/", "*", "*", "/", "a", "p", "p", ".", "j", "s">>) @@
    ("cd /tmp && rm -rf /" :> <<"c", "d", " ", "/", "t", "m", "p", " ", "&", "&", " ", "r", "m", " ", "-", "r", "f", " ", "/">>) @@
    ("rm (" :> <<"r", "m", " ", "(">>) @@
    ("*ls" :> <<"*", "l", "s">>)

Chars(s) == CharTable[s]

(***************************************************************************)
(* Regular expressions in compiled form: alternatives of token sequences.  *)
(* A token is a literal, '.' (any) or '[^/]' (seg), possibly starred.      *)
(***************************************************************************)
Lit(c) == [t |-> "lit", c |-> c, star |-> FALSE]
AnyChar == [t |-> "any", c |-> "", star |-> FALSE]
AnyStar == [t |-> "any", c |-> "", star |-> TRUE]
SegStar == [t |-> "seg", c |-> "", star |-> TRUE]

TokOk(tok, ch) ==
    CASE tok.t = "lit" -> ch = tok.c
      [] tok.t = "any" -> TRUE
      [] tok.t = "seg" -> ch # "/"

RECURSIVE ReMatch(_, _, _, _, _)
\* does toks[i..] match s starting at s[j]; full = the match must end at the
\* end of s (a trailing '$')
ReMatch(toks, i, s, j, full) ==
    IF i > Len(toks)
    THEN (~full) \/ j > Len(s)
    ELSE IF toks[i].star
         THEN \/ ReMatch(toks, i + 1, s, j, full)
              \/ /\ j <= Len(s)
                 /\ TokOk(toks[i], s[j])
                 /\ ReMatch(toks, i, s, j + 1, full)
         ELSE /\ j <= Len(s)
              /\ TokOk(toks[i], s[j])
              /\ ReMatch(toks, i + 1, s, j + 1, full)

\* RegExp.prototype.test of an unanchored (search) or '^'-anchored pattern
ReTest(re, s) ==
    \E a \in 1..Len(re.alts) :
        \E j \in 1..(IF re.anchored THEN 1 ELSE Len(s) + 1) :
            ReMatch(re.alts[a], 1, s, j, FALSE)

(***************************************************************************)
(* PolicyEngine.matchGlob: the glob is rewritten to a regular expression   *)
(* ('.' escaped, '**' -> '.*', '*' -> '[^/]*', '?' -> '.') and tested      *)
(* anchored at both ends.                                                  *)
(***************************************************************************)
RECURSIVE GlobToRegex(_, _)
GlobToRegex(pattern, i) ==
    IF i > Len(pattern) THEN << >>
    ELSE IF pattern[i] = "*" /\ i < Len(pattern) /\ pattern[i + 1] = "*"
         THEN <<AnyStar>> \o GlobToRegex(pattern, i + 2)
    ELSE IF pattern[i] = "*"
         THEN <<SegStar>> \o GlobToRegex(pattern, i + 1)
    ELSE IF pattern[i] = "?"
         THEN <<AnyChar>> \o GlobToRegex(pattern, i + 1)
    ELSE <<Lit(pattern[i])>> \o GlobToRegex(pattern, i + 1)

GlobTest(str, pattern) ==
    ReMatch(GlobToRegex(Chars(pattern), 1), 1, Chars(str), 1, TRUE)

\* GlobTest over the strings of the model, tabulated
GlobMatches ==
    [sp \in (DOMAIN CharTable) \X (DOMAIN CharTable) |-> GlobTest(sp[1], sp[2])]
       @@ [sp \in {} |-> FALSE]

matchGlob(str, pattern) == GlobMatches[<<str, pattern>>]

(***************************************************************************)
(* new RegExp(pattern) for the pattern syntax the model uses: literals,    *)
(* '.', a postfix '*', '\' escapes, '|' between alternatives, the empty    *)
(* group '()', a leading '^'; '{' and '}' that form no quantifier are      *)
(* literals.  A SyntaxError is the result Malformed.                       *)
(***************************************************************************)
Malformed == [malformed |-> TRUE, anchored |-> FALSE, alts |-> << >>]

RECURSIVE ReCompile(_, _, _, _, _)
\* p[i..] is still to read; cur is the alternative being built, alts the
\* finished ones
ReCompile(p, i, cur, alts, anchored) ==
    IF i > Len(p)
    THEN [malformed |-> FALSE, anchored |-> anchored, alts |-> Append(alts, cur)]
    ELSE CASE p[i] = "\\" ->
                IF i = Len(p) THEN Malformed
                ELSE ReCompile(p, i + 2, Append(cur, Lit(p[i + 1])), alts, anchored)
           [] p[i] = "|" -> ReCompile(p, i + 1, << >>, Append(alts, cur), anchored)
           [] p[i] = "*" ->
                IF cur = << >> \/ cur[Len(cur)].star THEN Malformed
                ELSE ReCompile(p, i + 1,
                               [cur EXCEPT ![Len(cur)].star = TRUE], alts, anchored)
           [] p[i] = "." -> ReCompile(p, i + 1, Append(cur, AnyChar), alts, anchored)
           [] p[i] = "(" ->
                IF i < Len(p) /\ p[i + 1] = ")"
                THEN ReCompile(p, i + 2, cur, alts, anchored)
                ELSE Malformed
           [] p[i] = ")" -> Malformed
           [] p[i] = "^" /\ i = 1 -> ReCompile(p, i + 1, cur, alts, TRUE)
           [] OTHER -> ReCompile(p, i + 1, Append(cur, Lit(p[i])), alts, anchored)

\* a test in which a pattern that RegExp rejects matches every string
RegexTestMalformedMatches(str, pattern) ==
    LET regex == ReCompile(Chars(pattern), 1, << >>, << >>, FALSE)
    IN  IF regex.malformed THEN TRUE ELSE ReTest(regex, Chars(str))

\* a pattern that RegExp rejects matches nothing
RegexTest(str, pattern) ==
    LET regex == ReCompile(Chars(pattern), 1, << >>, << >>, FALSE)
    IN  IF regex.malformed THEN FALSE ELSE ReTest(regex, Chars(str))

\* RegexTest over the strings of the model, tabulated
RegexMatches ==
    [sp \in (DOMAIN CharTable) \X (DOMAIN CharTable) |-> RegexTest(sp[1], sp[2])]
       @@ [sp \in {} |-> FALSE]

\* a comparison of the whole command with the pattern
matchRegexWhole(str, pattern) == str = pattern

\* PolicyEngine.matchRegex
matchRegex(str, pattern) == RegexMatches[<<str, pattern>>]

(***************************************************************************)
(* Policy rules (PolicyRule / PolicyConfig).  A rule's target is a name or *)
(* an array of names: the set of names.  has = the condition fields that   *)
(* are present in rule.conditions.                                         *)
(***************************************************************************)
NoTime == [hasHours |-> FALSE, startHour |-> 0, endHour |-> 0,
           hasDays |-> FALSE, daysOfWeek |-> {}]

Rule(id, appliesTo, target, effect) ==
    [id |-> id, appliesTo |-> appliesTo, target |-> target, effect |-> effect,
     has |-> {}, deniedFiles |-> << >>, allowedFiles |-> << >>,
     deniedCommands |-> << >>, allowedCommands |-> << >>,
     requiresApproval |-> FALSE, timeRestrictions |-> NoTime]

getDefaultPolicy ==
    [defaultEffect |-> "allow",
     defaultRequiresApproval |-> TRUE,
     rules |-> <<
        [Rule("deny-secrets", "action",
              {"MODIFY_FILE", "DELETE_FILE", "CREATE_FILE"}, "deny")
           EXCEPT !.has = {"deniedFiles"},
                  !.deniedFiles = <<"**/.env", "**/.env.*", "**/secrets/**",
                                    "**/credentials/**", "**/*.key", "**/*.pem",
                                    "**/id_rsa*">>],
        [Rule("deny-dangerous-commands", "action", {"RUN_COMMAND"}, "deny")
           EXCEPT !.has = {"deniedCommands"},
                  !.deniedCommands = <<"rm -rf /", "dd if=", "mkfs\\.",
                                       "wget.*\\|.*sh", "curl.*\\|.*bash",
                                       ":(){ :|:& };:", "chmod -R 777 /">>],
        [Rule("approve-deletions", "action", {"DELETE_FILE"}, "allow")
           EXCEPT !.has = {"requiresApproval"}, !.requiresApproval = TRUE],
        [Rule("approve-commands", "action", {"RUN_COMMAND"}, "allow")
           EXCEPT !.has = {"requiresApproval"}, !.requiresApproval = TRUE] >>]

(***************************************************************************)
(* Decisions of the policy gate.  reason: kind names the message, rule the *)
(* rule id it cites ("" when the message cites none).                      *)
(***************************************************************************)
NoReason == [kind |-> "", rule |-> "", target |-> "", pattern |-> ""]

AllowedResult == [allowed |-> TRUE, reason |-> NoReason,
                  hasRequiresApproval |-> FALSE, requiresApproval |-> FALSE]

Deny(kind, rule, target, pattern) ==
    [allowed |-> FALSE,
     reason |-> [kind |-> kind, rule |-> rule, target |-> target, pattern |-> pattern],
     hasRequiresApproval |-> FALSE, requiresApproval |-> FALSE]

\* Array.prototype.find: index of the first rule of the scope naming the subject
FindRule(rules, scope, name) ==
    LET hits == {k \in 1..Len(rules) :
                    rules[k].appliesTo = scope /\ name \in rules[k].target}
    IN  IF hits = {} THEN 0 ELSE CHOOSE k \in hits : \A h \in hits : k <= h

\* this.config.rules is undefined in a configuration object without a rules
\* list: rules.find and rules.filter throw a TypeError
GateThrows(config) == "rules" \notin DOMAIN config

checkPipeline(config, pipelineId) ==
    LET k == FindRule(config.rules, "pipeline", pipelineId)
    IN  IF k # 0 /\ config.rules[k].effect = "deny"
        THEN Deny("pipelineDenied", config.rules[k].id, "", "")
        ELSE AllowedResult

checkStep(config, step) ==
    LET k == FindRule(config.rules, "agent", step.agent)
    IN  IF k # 0 /\ config.rules[k].effect = "deny"
        THEN Deny("agentDenied", config.rules[k].id, "", "")
        ELSE AllowedResult

(***************************************************************************)
(* PolicyEngine.checkAction.  An action is [type, hasTargets, targets,     *)
(* command, reasoning, requiresApproval]; command "" is an absent (or      *)
(* empty, equally falsy) payload.command.  now = [hour, day] is the clock  *)
(* the check reads.                                                        *)
(***************************************************************************)
\* the first (target, pattern) pair of the nested deniedFiles loops that
\* matches, <<0, 0>> if none does
FirstDeniedFile(rule, action) ==
    LET hits == {h \in (1..Len(action.targets)) \X (1..Len(rule.deniedFiles)) :
                    matchGlob(action.targets[h[1]], rule.deniedFiles[h[2]])}
    IN  IF hits = {} THEN <<0, 0>>
        ELSE CHOOSE h \in hits :
                \A g \in hits : h[1] < g[1] \/ (h[1] = g[1] /\ h[2] <= g[2])

RECURSIVE FirstUnlistedFile(_, _, _, _)
\* the allowedFiles loop: index of the target at which it returns, 0 if it
\* runs to the end; fileAllowed is declared once, before the loop
FirstUnlistedFile(rule, action, t, fileAllowed) ==
    IF t > Len(action.targets) THEN 0
    ELSE LET nowAllowed ==
                 fileAllowed \/ \E k \in 1..Len(rule.allowedFiles) :
                                    matchGlob(action.targets[t], rule.allowedFiles[k])
         IN  IF ~nowAllowed /\ rule.effect = "allow" THEN t
             ELSE FirstUnlistedFile(rule, action, t + 1, nowAllowed)

FirstDeniedCommand(rule, action) ==
    LET hits == {k \in 1..Len(rule.deniedCommands) :
                    matchRegex(action.command, rule.deniedCommands[k])}
    IN  IF hits = {} THEN 0 ELSE CHOOSE k \in hits : \A h \in hits : k <= h

\* a window whose end hour is still inside
OutsideHoursEndInside(rule, now) ==
    /\ rule.timeRestrictions.hasHours
    /\ \/ now.hour < rule.timeRestrictions.startHour
       \/ now.hour > rule.timeRestrictions.endHour

\* hour < startHour || hour >= endHour, when both are defined
OutsideHours(rule, now) ==
    /\ rule.timeRestrictions.hasHours
    /\ \/ now.hour < rule.timeRestrictions.startHour
       \/ now.hour >= rule.timeRestrictions.endHour

OutsideDays(rule, now) ==
    /\ rule.timeRestrictions.hasDays
    /\ now.day \notin rule.timeRestrictions.daysOfWeek

\* an override that tests the field for truth: false never overrides
ApprovalOverrideIfTrue(rule, requiresApproval) ==
    IF "requiresApproval" \in rule.has /\ rule.requiresApproval
    THEN TRUE ELSE requiresApproval

\* the approval requirement after the rule: conditions.requiresApproval if
\* the rule specifies it (!== undefined)
ApprovalOverride(rule, requiresApproval) ==
    IF "requiresApproval" \in rule.has
    THEN rule.requiresApproval ELSE requiresApproval

\* the deniedFiles block of one rule of the loop: does it return a denial
DeniedFilesBlock(rule, action) ==
    /\ "deniedFiles" \in rule.has
    /\ action.hasTargets
    /\ FirstDeniedFile(rule, action) # <<0, 0>>
    /\ rule.effect = "deny"

RECURSIVE ScanRules(_, _, _, _, _)
\* the loop over matchingRules, from rule k on; requiresApproval is the
\* value accumulated so far
ScanRules(config, k, action, requiresApproval, now) ==
    IF k > Len(config.rules)
    THEN [allowed |-> TRUE, reason |-> NoReason,
          hasRequiresApproval |-> TRUE, requiresApproval |-> requiresApproval]
    ELSE LET rule == config.rules[k] IN
      IF ~(rule.appliesTo = "action" /\ action.type \in rule.target)
      THEN ScanRules(config, k + 1, action, requiresApproval, now)
      ELSE IF DeniedFilesBlock(rule, action)
      THEN LET h == FirstDeniedFile(rule, action)
           IN  Deny("deniedFile", rule.id, action.targets[h[1]],
                    rule.deniedFiles[h[2]])
      ELSE IF /\ "allowedFiles" \in rule.has
              /\ action.hasTargets
              /\ FirstUnlistedFile(rule, action, 1, FALSE) # 0
      THEN Deny("fileNotAllowed", rule.id,
                action.targets[FirstUnlistedFile(rule, action, 1, FALSE)], "")
      ELSE IF /\ "deniedCommands" \in rule.has
              /\ action.command # ""
              /\ FirstDeniedCommand(rule, action) # 0
              /\ rule.effect = "deny"
      THEN Deny("deniedCommand", rule.id, "",
                rule.deniedCommands[FirstDeniedCommand(rule, action)])
      ELSE IF /\ "allowedCommands" \in rule.has
              /\ action.command # ""
              /\ ~\E c \in 1..Len(rule.allowedCommands) :
                     matchRegex(action.command, rule.allowedCommands[c])
              /\ rule.effect = "allow"
      THEN Deny("commandNotAllowed", rule.id, "", "")
      ELSE IF "timeRestrictions" \in rule.has /\ OutsideHours(rule, now)
      THEN Deny("outsideHours", "", "", "")
      ELSE IF "timeRestrictions" \in rule.has /\ OutsideDays(rule, now)
      THEN Deny("outsideDays", "", "", "")
      ELSE ScanRules(config, k + 1, action,
                     ApprovalOverride(rule, requiresApproval), now)

checkAction(config, action, now) ==
    ScanRules(config, 1, action, config.defaultRequiresApproval, now)

(***************************************************************************)
(* Pipeline definitions.  A step is [id, agent, method, inputFrom,         *)
(* hasQuery, continueOnError, requiresApproval, timeout]; 0 is an absent   *)
(* timeout.  The definitions offered to registerPipeline are all the       *)
(* sequences of at most MaxSteps steps over StepKinds, the k-th step       *)
(* having the id StepIds[k].                                               *)
(***************************************************************************)
StepIds == <<"s1", "s2", "s3", "s4", "s5", "s6", "s7", "s8", "s9">>
\* `generated-${step.id}.${ext}` for the step ids, ext 'txt' (the
\* provider's data names no language)
GeneratedTarget ==
    <<"generated-s1.txt", "generated-s2.txt", "generated-s3.txt",
      "generated-s4.txt", "generated-s5.txt", "generated-s6.txt",
      "generated-s7.txt", "generated-s8.txt", "generated-s9.txt">>

StepKind(agent, inputFrom, continueOnError, requiresApproval) ==
    [agent |-> agent, inputFrom |-> inputFrom, hasQuery |-> FALSE,
     continueOnError |-> continueOnError, requiresApproval |-> requiresApproval,
     timeout |-> 0]

StepKinds ==
    { StepKind("base", "user", FALSE, TRUE),
      StepKind("terminalAgent", "user", TRUE, TRUE),
      StepKind("codeGenerator", "previousStep", FALSE, FALSE),
      [StepKind("base", "previousStep", TRUE, FALSE) EXCEPT !.timeout = 5] }

MkStep(kind, k) ==
    [id |-> StepIds[k], agent |-> kind.agent, method |-> "query",
     inputFrom |-> kind.inputFrom, hasQuery |-> kind.hasQuery,
     continueOnError |-> kind.continueOnError,
     requiresApproval |-> kind.requiresApproval, timeout |-> kind.timeout]

PipelineIds == {"p"}

PipelineDefs ==
    { [id |-> id, requiresApproval |-> ra,
       steps |-> [k \in DOMAIN kinds |-> MkStep(kinds[k], k)]] :
         id \in PipelineIds, ra \in BOOLEAN,
         kinds \in UNION {[1..m -> StepKinds] : m \in 1..MaxSteps} }

NoPipeline == [id |-> "", requiresApproval |-> FALSE, steps |-> << >>]

\* the value of lastCall before any call on the registry
NoCall ==
    [op |-> "constructor", id |-> "", def |-> NoPipeline, returned |-> TRUE,
     threw |-> ""]

\* A property that an object lacks is a field that the record lacks; a
\* property is truthy when it is there and is not the empty string.
Truthy(obj, f) == f \in DOMAIN obj /\ obj[f] # ""

Drop(obj, f) == [g \in DOMAIN obj \ {f} |-> obj[g]]

\* PipelineEngine.validatePipelineDefinition: the message of the error that
\* forEach throws at the first step that lacks a field, "" when it returns
validatePipelineDefinition(pipeline) ==
    LET Missing(step) ==
            IF ~Truthy(step, "id") THEN "missing id"
            ELSE IF ~Truthy(step, "agent") THEN "missing agent"
            ELSE IF ~Truthy(step, "method") THEN "missing method"
            ELSE IF ~Truthy(step, "inputFrom") THEN "missing inputFrom"
            ELSE ""
        bad == {k \in DOMAIN pipeline.steps : Missing(pipeline.steps[k]) # ""}
    IN  IF bad = {} THEN ""
        ELSE Missing(pipeline.steps[CHOOSE k \in bad : \A m \in bad : k <= m])

\* the checks of registerPipeline before it stores: the message of the
\* error thrown, "" when there is none
RegistrationError(pipelineDefinition) ==
    IF ~Truthy(pipelineDefinition, "id") THEN "Pipeline must have an id"
    ELSE IF "steps" \notin DOMAIN pipelineDefinition
    THEN "Pipeline must have a steps array"
    ELSE validatePipelineDefinition(pipelineDefinition)

(***************************************************************************)
(* The engine.  pipelines is the registry (a map: its domain is the set of *)
(* registered ids), policyEngine and options are the constructor's         *)
(* options, run is the state of the runPipeline call: its locals, the      *)
(* place where it is suspended (pc), and calls, the trace of what it did:  *)
(* its calls to the policy gate (checkPipeline, checkStep), to the         *)
(* approval hook (requestApproval, then approved or rejected), to the      *)
(* providers (provider, timeout) and to the observer (onStepComplete), and *)
(* the StepResults it appended (stepResult), each with the index of the    *)
(* step (0 for the pipeline).                                              *)
(***************************************************************************)
VARIABLES pipelines, policyEngine, options, run, otherRun, lastCall, lastCheck

vars == <<pipelines, policyEngine, options, run, otherRun, lastCall, lastCheck>>

defaultTimeout == 60000

ClientAgents == {"base", "codeGenerator", "terminalAgent"}

\* the methods that each agent of the client has
ClientMethods == {"query"}

\* {...a, ...b}: the properties of a overridden by those of b
Spread(a, b) ==
    [f \in DOMAIN a \cup DOMAIN b |-> IF f \in DOMAIN b THEN b[f] ELSE a[f]]

\* pipeline.defaultContext; spreading undefined adds nothing
DefaultContextOf(pipeline) ==
    IF "defaultContext" \in DOMAIN pipeline THEN pipeline.defaultContext
    ELSE << >>

\* an execution context in which the caller's properties come last
executionContextCallerLast(pipeline, context) ==
    Spread(Spread([stepResults |-> << >>], DefaultContextOf(pipeline)), context)

\* the executionContext of runPipeline
executionContext(pipeline, context) ==
    Spread(Spread(DefaultContextOf(pipeline), context), [stepResults |-> << >>])

Err(msg, ms) == [msg |-> msg, ms |-> ms]
NoError == Err("", 0)

\* data of a StepResult: null, or an object whose code field is code ("" =
\* the object has no code field)
NullData == [isNull |-> TRUE, code |-> ""]
Data(code) == [isNull |-> FALSE, code |-> code]

\* what a provider may answer: {success, data}
ProviderReplies ==
    { [success |-> TRUE, data |-> Data("rm -rf /")],
      [success |-> FALSE, data |-> Data("")] }

IdleRun ==
    [pc |-> "idle", pipeline |-> NoPipeline, i |-> 0,
     stepResults |-> << >>, actions |-> << >>, stepOutputs |-> << >>,
     pipelineSuccess |-> TRUE, pipelineError |-> NoError,
     error |-> NoError, calls |-> << >>, abandoned |-> {},
     contextArg |-> << >>, context |-> << >>]

Log(r, op, k) == [r EXCEPT !.calls = Append(@, [op |-> op, step |-> k])]

\* the return statement of runPipeline
Finish(r) == [r EXCEPT !.pc = "returned", !.i = 0]

\* an exception leaving runPipeline
Throw(r, err) == [r EXCEPT !.pc = "thrown", !.i = 0, !.error = err]

\* buildStepInput: [ok, error]; the input value itself is not modelled
buildStepInput(step, previousResults) ==
    IF step.inputFrom = "previousStep"
    THEN IF Len(previousResults) = 0
         THEN [ok |-> FALSE, error |-> Err("requires previous step but none exists", 0)]
         ELSE IF step.hasQuery THEN [ok |-> TRUE, error |-> NoError]
         ELSE IF previousResults[Len(previousResults)].data.isNull
         THEN [ok |-> FALSE, error |-> Err("TypeError", 0)]
         ELSE [ok |-> TRUE, error |-> NoError]
    ELSE [ok |-> TRUE, error |-> NoError]

\* extractActions reads data.code only for these agents
ExtractThrows(step, data) ==
    step.agent \in {"codeGenerator", "terminalAgent"} /\ data.isNull

\* a value of the reasoning property of a provider's data: its type and its
\* text; a string is truthy unless empty, a number unless 0
JsString(text) == [type |-> "string", text |-> text]

JsTruthy(value) ==
    IF value.type = "string" THEN value.text # "" ELSE value.text # "0"

\* data.reasoning || fallback
ReasoningOr(data, fallback) ==
    IF "reasoning" \in DOMAIN data /\ JsTruthy(data.reasoning)
    THEN data.reasoning
    ELSE JsString(fallback)

\* an action pushed by extractActions; reasoning and reasoningType are the
\* text and the type of its reasoning property
Action(type, targets, command, reasoning) ==
    [type |-> type, hasTargets |-> TRUE, targets |-> targets,
     command |-> command, reasoning |-> reasoning.text,
     reasoningType |-> reasoning.type, requiresApproval |-> TRUE]

extractActions(step, data, k) ==
    IF step.agent = "codeGenerator" /\ data.code # ""
    THEN <<Action("CREATE_FILE", <<GeneratedTarget[k]>>, "",
                  ReasoningOr(data, "Generated by code generator"))>>
    ELSE IF step.agent = "terminalAgent" /\ data.code # ""
    THEN <<Action("RUN_COMMAND", << >>, data.code,
                  ReasoningOr(data, "Terminal command"))>>
    ELSE << >>

\* the StepResult built by the catch block of runPipeline
FailedResult(step, err) ==
    [stepId |-> step.id, success |-> FALSE, data |-> NullData, error |-> err,
     hasActions |-> FALSE, actions |-> << >>]

RECURSIVE EnterStep(_, _)
RECURSIVE CatchStep(_, _, _)

\* a catch block that goes on without recording the failed step
CatchStepUnrecorded(r, k, err) ==
    LET step == r.pipeline.steps[k]
    IN  IF ~step.continueOnError
        THEN Finish([r EXCEPT !.pipelineSuccess = FALSE, !.pipelineError = err])
        ELSE EnterStep(r, k + 1)

\* the catch block of the loop body, for step k
CatchStep(r, k, err) ==
    LET step == r.pipeline.steps[k]
        r1 == Log([r EXCEPT !.stepResults = Append(@, FailedResult(step, err))],
                  "stepResult", k)
    IN  IF ~step.continueOnError
        THEN Finish([r1 EXCEPT !.pipelineSuccess = FALSE, !.pipelineError = err])
        ELSE EnterStep(r1, k + 1)

\* executeStep from the agent lookup to the suspension in executeWithTimeout
CallProvider(r, k) ==
    LET step == r.pipeline.steps[k]
    IN  IF step.agent \notin ClientAgents
        THEN CatchStep(r, k, Err("Agent not found", 0))
        ELSE IF step.method \notin ClientMethods
        THEN CatchStep(r, k, Err("Method not found", 0))
        ELSE [Log(r, "provider", k) EXCEPT !.pc = "provider", !.i = k]

\* an executeStep that never asks for approval
AfterStepPolicyUnapproved(r, k) == CallProvider(r, k)

\* executeStep from the approval request on
AfterStepPolicy(r, k) ==
    LET step == r.pipeline.steps[k]
    IN  IF step.requiresApproval /\ ~options.autoApprove
        THEN IF options.onApprovalRequired
             THEN [Log(r, "requestApproval", k) EXCEPT !.pc = "stepApproval", !.i = k]
             ELSE CallProvider(Log(Log(r, "requestApproval", k), "approved", k), k)
        ELSE CallProvider(r, k)

\* a loop that reads the definition from the registry at each iteration
EnterStepFromRegistry(r, k) ==
    LET r2 == [r EXCEPT !.pipeline = IF r.pipeline.id \in DOMAIN pipelines
                                     THEN pipelines[r.pipeline.id]
                                     ELSE [r.pipeline EXCEPT !.steps = << >>]]
    IN  IF k > Len(r2.pipeline.steps) THEN Finish(r2)
        ELSE LET step == r2.pipeline.steps[k]
                 input == buildStepInput(step, r2.stepResults)
             IN  IF ~input.ok THEN CatchStep(r2, k, input.error)
                 ELSE IF policyEngine.configured
                 THEN IF ~checkStep(policyEngine.config, step).allowed
                      THEN CatchStep(Log(r2, "checkStep", k), k,
                                     Err("Step blocked by policy", 0))
                      ELSE AfterStepPolicy(Log(r2, "checkStep", k), k)
                 ELSE AfterStepPolicy(r2, k)

\* the head of the loop for step k, up to the next suspension
EnterStep(r, k) ==
    IF k > Len(r.pipeline.steps) THEN Finish(r)
    ELSE LET step == r.pipeline.steps[k]
             input == buildStepInput(step, r.stepResults)
         IN  IF ~input.ok THEN CatchStep(r, k, input.error)
             ELSE IF policyEngine.configured
             THEN IF GateThrows(policyEngine.config)
                  THEN CatchStep(Log(r, "checkStep", k), k, Err("TypeError", 0))
                  ELSE IF ~checkStep(policyEngine.config, step).allowed
                  THEN CatchStep(Log(r, "checkStep", k), k,
                                 Err("Step blocked by policy", 0))
                  ELSE AfterStepPolicy(Log(r, "checkStep", k), k)
             ELSE AfterStepPolicy(r, k)

\* a loop that attempts a failed step again instead of going on
DecideRetry(r, k) ==
    LET step == r.pipeline.steps[k]
        stepResult == r.stepResults[Len(r.stepResults)]
    IN  IF ~stepResult.success /\ ~step.continueOnError
        THEN Finish([r EXCEPT !.pipelineSuccess = FALSE,
                              !.pipelineError = stepResult.error])
        ELSE IF ~stepResult.success THEN EnterStep(r, k)
        ELSE EnterStep(r, k + 1)

\* a loop that reports the failure of a step that it goes on after
DecideFlagsFailure(r, k) ==
    LET step == r.pipeline.steps[k]
        stepResult == r.stepResults[Len(r.stepResults)]
        failed == [r EXCEPT !.pipelineSuccess = FALSE,
                            !.pipelineError = stepResult.error]
    IN  IF ~stepResult.success /\ ~step.continueOnError THEN Finish(failed)
        ELSE IF ~stepResult.success THEN EnterStep(failed, k + 1)
        ELSE EnterStep(r, k + 1)

\* the end of the try block, after the observer
Decide(r, k) ==
    LET step == r.pipeline.steps[k]
        stepResult == r.stepResults[Len(r.stepResults)]
    IN  IF ~stepResult.success /\ ~step.continueOnError
        THEN Finish([r EXCEPT !.pipelineSuccess = FALSE,
                              !.pipelineError = stepResult.error])
        ELSE EnterStep(r, k + 1)

\* executeStep after the provider answered, and the loop body after it
AfterProvider(r, k, reply) ==
    LET step == r.pipeline.steps[k]
    IN  IF ExtractThrows(step, reply.data)
        THEN CatchStep(r, k, Err("TypeError", 0))
        ELSE LET acts == extractActions(step, reply.data, k)
                 stepResult == [stepId |-> step.id, success |-> reply.success,
                                data |-> reply.data, error |-> NoError,
                                hasActions |-> TRUE, actions |-> acts]
                 r1 == Log([r EXCEPT !.stepResults = Append(@, stepResult),
                                     !.stepOutputs = (step.id :> reply.data) @@ @,
                                     !.actions = @ \o acts],
                           "stepResult", k)
             IN  IF options.onStepComplete
                 THEN [Log(r1, "onStepComplete", k) EXCEPT !.pc = "observer"]
                 ELSE Decide(r1, k)

\* runPipeline from the approval request on
AfterPipelinePolicy(r) ==
    IF r.pipeline.requiresApproval /\ ~options.autoApprove
    THEN IF options.onApprovalRequired
         THEN [Log(r, "requestApproval", 0) EXCEPT !.pc = "pipelineApproval"]
         ELSE EnterStep(Log(Log(r, "requestApproval", 0), "approved", 0), 1)
    ELSE EnterStep(r, 1)

(***************************************************************************)
(* Construction.  The engine is built without a policy engine, or with a   *)
(* PolicyEngine holding the default policy to which addRule added a rule   *)
(* that denies an agent or a pipeline.                                     *)
(***************************************************************************)
NoPolicyEngine ==
    [configured |-> FALSE,
     config |-> [defaultEffect |-> "allow", defaultRequiresApproval |-> TRUE,
                 rules |-> << >>]]

addRule(cfg, rule) == [cfg EXCEPT !.rules = Append(@, rule)]

PolicyEngines ==
    { NoPolicyEngine,
      [configured |-> TRUE,
       config |-> addRule(getDefaultPolicy,
                          Rule("deny-base", "agent", {"base"}, "deny"))],
      [configured |-> TRUE,
       config |-> addRule(getDefaultPolicy,
                          Rule("deny-p", "pipeline", {"p"}, "deny"))] }

\* lastCheck: the latest direct call of the policy gate, the configuration
\* and clock it read, whether it threw, and the decision it returned
NoAction == [type |-> "", hasTargets |-> FALSE, targets |-> << >>,
             command |-> "", reasoning |-> "", requiresApproval |-> FALSE]

NoCheck == [op |-> "", config |-> NoPolicyEngine.config, subject |-> "",
            stepId |-> "", pattern |-> "", matched |-> FALSE, threw |-> FALSE,
            action |-> NoAction, now |-> [hour |-> 0, day |-> 0],
            result |-> AllowedResult]

\* the options a constructor call gives; with autoApprove the approval hook is
\* never consulted, so one engine (with the hook set) stands for both
EngineOptions ==
    {o \in [autoApprove : BOOLEAN, onApprovalRequired : BOOLEAN,
            onStepComplete : BOOLEAN] :
        o.autoApprove => o.onApprovalRequired}

Init ==
    /\ pipelines = << >>
    /\ policyEngine \in PolicyEngines
    /\ options \in EngineOptions
    /\ run = IdleRun
    /\ otherRun = IdleRun
    /\ lastCall = NoCall
    /\ lastCheck = NoCheck

(***************************************************************************)
(* Operations of the engine and completions of what a run waits for.       *)
(***************************************************************************)
\* a registerPipeline that stores the definition before it validates it
registerPipelineStoreFirst(def) ==
    /\ pipelines' = IF Truthy(def, "id") THEN (def.id :> def) @@ pipelines
                    ELSE pipelines
    /\ lastCall' = [op |-> "registerPipeline", def |-> def,
                    id |-> IF "id" \in DOMAIN def THEN def.id ELSE "",
                    returned |-> RegistrationError(def) = "",
                    threw |-> RegistrationError(def)]
    /\ UNCHANGED <<policyEngine, options, run, otherRun, lastCheck>>

\* a registerPipeline that keeps the definition already stored under the id
registerPipelineFirstWins(def) ==
    /\ pipelines' = IF RegistrationError(def) = ""
                    THEN pipelines @@ (def.id :> def)
                    ELSE pipelines
    /\ lastCall' = [op |-> "registerPipeline", def |-> def,
                    id |-> IF "id" \in DOMAIN def THEN def.id ELSE "",
                    returned |-> RegistrationError(def) = "",
                    threw |-> RegistrationError(def)]
    /\ UNCHANGED <<policyEngine, options, run, otherRun, lastCheck>>

\* lastCall records the latest call on the registry: the definition or id
\* given, whether the call returned, and the message of the error thrown
registerPipeline(def) ==
    /\ pipelines' = IF RegistrationError(def) = ""
                    THEN (def.id :> def) @@ pipelines
                    ELSE pipelines
    /\ lastCall' = [op |-> "registerPipeline", def |-> def,
                    id |-> IF "id" \in DOMAIN def THEN def.id ELSE "",
                    returned |-> RegistrationError(def) = "",
                    threw |-> RegistrationError(def)]
    /\ UNCHANGED <<policyEngine, options, run, otherRun, lastCheck>>

\* Map.delete: true exactly when the id was present
unregisterPipeline(id) ==
    /\ pipelines' = [x \in DOMAIN pipelines \ {id} |-> pipelines[x]]
    /\ lastCall' = [NoCall EXCEPT !.op = "unregisterPipeline", !.id = id,
                                  !.returned = id \in DOMAIN pipelines]
    /\ UNCHANGED <<policyEngine, options, run, otherRun, lastCheck>>

\* the locals of runPipeline after the lookup: the pipeline, the execution
\* context (its step-output map is run.stepOutputs, the rest run.context)
StartRunOf(r, pipeline, context) ==
    [r EXCEPT !.pipeline = pipeline, !.contextArg = context,
              !.context = Drop(executionContext(pipeline, context), "stepResults"),
              !.stepOutputs = executionContext(pipeline, context).stepResults]

StartRun(pipeline, context) == StartRunOf(run, pipeline, context)

\* a runPipeline that consults the policy gate before it looks the id up
runPipelineGateFirst(pipelineId, context) ==
    /\ run.pc = "idle"
    /\ run' =
         IF pipelineId \notin DOMAIN pipelines
         THEN Throw(Log(run, "checkPipeline", 0), Err("Pipeline not found", 0))
         ELSE LET r == StartRun(pipelines[pipelineId], context)
              IN  AfterPipelinePolicy(Log(r, "checkPipeline", 0))
    /\ UNCHANGED <<pipelines, policyEngine, options, otherRun, lastCall,
                   lastCheck>>

\* runPipeline(pipelineId, context) up to its first suspension
runPipeline(pipelineId, context) ==
    /\ run.pc = "idle"
    /\ run' =
         IF pipelineId \notin DOMAIN pipelines
         THEN Throw(run, Err("Pipeline not found", 0))
         ELSE LET r == StartRun(pipelines[pipelineId], context)
              IN  IF policyEngine.configured
                  THEN IF GateThrows(policyEngine.config)
                       THEN Throw(Log(r, "checkPipeline", 0), Err("TypeError", 0))
                       ELSE IF ~checkPipeline(policyEngine.config,
                                              r.pipeline.id).allowed
                       THEN Throw(Log(r, "checkPipeline", 0),
                                  Err("Pipeline blocked by policy", 0))
                       ELSE AfterPipelinePolicy(Log(r, "checkPipeline", 0))
                  ELSE AfterPipelinePolicy(r)
    /\ UNCHANGED <<pipelines, policyEngine, options, otherRun, lastCall,
                   lastCheck>>

\* a runPipeline that ignores the answer to the pipeline-level request
PipelineApprovalIgnored(approved) ==
    /\ run.pc = "pipelineApproval"
    /\ run' = EnterStep(Log(run, IF approved THEN "approved" ELSE "rejected", 0), 1)
    /\ UNCHANGED <<pipelines, policyEngine, options, otherRun, lastCall,
                   lastCheck>>

\* the approval hook answers the pipeline-level request
PipelineApprovalAnswer(approved) ==
    /\ run.pc = "pipelineApproval"
    /\ run' = IF approved THEN EnterStep(Log(run, "approved", 0), 1)
              ELSE Throw(Log(run, "rejected", 0),
                         Err("Pipeline execution rejected by user", 0))
    /\ UNCHANGED <<pipelines, policyEngine, options, otherRun, lastCall,
                   lastCheck>>

\* an executeStep that calls the provider whatever the approval hook answers
StepApprovalIgnored(approved) ==
    /\ run.pc = "stepApproval"
    /\ run' = CallProvider(Log(run, IF approved THEN "approved" ELSE "rejected",
                               run.i), run.i)
    /\ UNCHANGED <<pipelines, policyEngine, options, otherRun, lastCall,
                   lastCheck>>

\* the approval hook answers the request of step run.i
StepApprovalAnswer(approved) ==
    /\ run.pc = "stepApproval"
    /\ run' = IF approved THEN CallProvider(Log(run, "approved", run.i), run.i)
              ELSE CatchStep(Log(run, "rejected", run.i), run.i,
                             Err("Step execution rejected by user", 0))
    /\ UNCHANGED <<pipelines, policyEngine, options, otherRun, lastCall,
                   lastCheck>>

\* the provider's promise is fulfilled before the deadline
ProviderResolves(reply) ==
    /\ run.pc = "provider"
    /\ run' = AfterProvider(run, run.i, reply)
    /\ UNCHANGED <<pipelines, policyEngine, options, otherRun, lastCall,
                   lastCheck>>

\* the provider's promise is rejected before the deadline
ProviderRejects ==
    /\ run.pc = "provider"
    /\ run' = CatchStep(run, run.i, Err("provider error", 0))
    /\ UNCHANGED <<pipelines, policyEngine, options, otherRun, lastCall,
                   lastCheck>>

\* an executeWithTimeout that sets no timer
StepTimeoutNever ==
    /\ FALSE
    /\ UNCHANGED vars

\* executeWithTimeout: the timer wins the race; the provider call stays pending
StepTimeout ==
    /\ run.pc = "provider"
    /\ LET step == run.pipeline.steps[run.i]
           timeout == IF step.timeout # 0 THEN step.timeout ELSE defaultTimeout
       IN  run' = CatchStep(Log([run EXCEPT !.abandoned = @ \cup {run.i}],
                                "timeout", run.i),
                            run.i, Err("Step timeout", timeout))
    /\ UNCHANGED <<pipelines, policyEngine, options, otherRun, lastCall,
                   lastCheck>>

\* a late answer that is stored as the step's output all the same
LateProviderResponseStored(k) ==
    /\ k \in run.abandoned
    /\ run' = [run EXCEPT !.abandoned = @ \ {k},
                          !.stepOutputs = (run.pipeline.steps[k].id :> Data("")) @@ @]
    /\ UNCHANGED <<pipelines, policyEngine, options, otherRun, lastCall,
                   lastCheck>>

\* an abandoned provider call completes; the race is already settled
LateProviderResponse(k) ==
    /\ k \in run.abandoned
    /\ run' = [run EXCEPT !.abandoned = @ \ {k}]
    /\ UNCHANGED <<pipelines, policyEngine, options, otherRun, lastCall,
                   lastCheck>>

ObserverReturns ==
    /\ run.pc = "observer"
    /\ run' = Decide(run, run.i)
    /\ UNCHANGED <<pipelines, policyEngine, options, otherRun, lastCall,
                   lastCheck>>

\* onStepComplete throws or rejects: the catch block of the loop body runs
ObserverThrows ==
    /\ run.pc = "observer"
    /\ run' = CatchStep(run, run.i, Err("observer error", 0))
    /\ UNCHANGED <<pipelines, policyEngine, options, otherRun, lastCall,
                   lastCheck>>

\* Spec follows the runs of an engine whose registry is filled by first
\* registrations, made while no run is in progress: a definition is
\* registered under an id that is free; the caller of runPipeline gives no
\* context
Next ==
    \/ /\ run.pc = "idle"
       /\ \E id \in PipelineIds \ DOMAIN pipelines :
             \E def \in {d \in PipelineDefs : d.id = id} : registerPipeline(def)
    \/ /\ run.pc = "idle"
       /\ \E id \in PipelineIds : unregisterPipeline(id)
    \/ \E id \in PipelineIds : runPipeline(id, << >>)
    \/ \E approved \in BOOLEAN : PipelineApprovalAnswer(approved)
    \/ \E approved \in BOOLEAN : StepApprovalAnswer(approved)
    \/ \E reply \in ProviderReplies : ProviderResolves(reply)
    \/ ProviderRejects
    \/ StepTimeout
    \/ \E k \in run.abandoned : LateProviderResponse(k)
    \/ ObserverReturns
    \/ ObserverThrows

Spec == Init /\ [][Next]_vars

(***************************************************************************)
(* Runs under the scheduling that the claims on termination assume.  The   *)
(* timer set by executeWithTimeout fires unless the provider call settled  *)
(* before it; the approval hook and the observer of step completions       *)
(* return.  Nothing is assumed of the providers, nor of the callers of     *)
(* registerPipeline and runPipeline.  The definitions registered have one  *)
(* or two steps.                                                           *)
(***************************************************************************)
LiveDefs == {d \in PipelineDefs : Len(d.steps) <= 2}

NextLive ==
    \/ /\ run.pc = "idle"
       /\ \E def \in {d \in LiveDefs : d.id \notin DOMAIN pipelines} :
             registerPipeline(def)
    \/ \E id \in PipelineIds : runPipeline(id, << >>)
    \/ \E approved \in BOOLEAN : PipelineApprovalAnswer(approved)
    \/ \E approved \in BOOLEAN : StepApprovalAnswer(approved)
    \/ \E reply \in ProviderReplies : ProviderResolves(reply)
    \/ ProviderRejects
    \/ StepTimeout
    \/ \E k \in run.abandoned : LateProviderResponse(k)
    \/ ObserverReturns
    \/ ObserverThrows

SpecLive ==
    /\ Init
    /\ [][NextLive]_vars
    /\ WF_vars(StepTimeout)
    /\ WF_vars(\E approved \in BOOLEAN : PipelineApprovalAnswer(approved))
    /\ WF_vars(\E approved \in BOOLEAN : StepApprovalAnswer(approved))
    /\ WF_vars(ObserverReturns \/ ObserverThrows)

(***************************************************************************)
(* The registry alone: registerPipeline is offered definitions that pass   *)
(* its validation (some with two steps of the same id) and definitions     *)
(* that lack the id, the steps array, or a field of one of the steps,      *)
(* while no run is in progress.                                            *)
(***************************************************************************)
RegistryIds == {"p", "q"}

\* Map.get, NoPipeline for undefined
MapGet(map, key) == IF key \in DOMAIN map THEN map[key] ELSE NoPipeline

\* PipelineEngine.getPipeline
getPipeline(pipelineId) == MapGet(pipelines, pipelineId)

\* PipelineEngine.listPipelines: one entry per value of the map (id and
\* number of steps; name, description and version are not modelled)
listPipelines ==
    {[id |-> pipelines[k].id, steps |-> Len(pipelines[k].steps)] :
        k \in DOMAIN pipelines}

ValidDefs ==
    { [id |-> id, requiresApproval |-> FALSE, steps |-> <<MkStep(kind, 1)>>] :
        id \in RegistryIds, kind \in StepKinds }

RequiredStepFields == {"id", "agent", "method", "inputFrom"}

InvalidDefs ==
    {Drop(d, "id") : d \in ValidDefs}
    \cup {[d EXCEPT !.id = ""] : d \in ValidDefs}
    \cup {Drop(d, "steps") : d \in ValidDefs}
    \cup {[d EXCEPT !.steps = <<Drop(d.steps[1], f)>>] :
             d \in ValidDefs, f \in RequiredStepFields}
    \cup {[d EXCEPT !.steps =
                <<d.steps[1],
                  Drop(MkStep(StepKind("base", "user", FALSE, TRUE), 2), f)>>] :
             d \in ValidDefs, f \in RequiredStepFields}
    \cup {[d EXCEPT !.steps = <<[d.steps[1] EXCEPT !.agent = ""]>>] :
             d \in ValidDefs}

\* definitions in which the second step has the id of the first
DuplicateIdDefs ==
    {[d EXCEPT !.steps =
         <<d.steps[1], MkStep(StepKind("base", "user", FALSE, TRUE), 1)>>] :
        d \in ValidDefs}

InitRegistry ==
    /\ pipelines = << >>
    /\ policyEngine = NoPolicyEngine
    /\ options = [autoApprove |-> FALSE, onApprovalRequired |-> FALSE,
                  onStepComplete |-> FALSE]
    /\ run = IdleRun
    /\ otherRun = IdleRun
    /\ lastCall = NoCall
    /\ lastCheck = NoCheck

NextRegistry ==
    \/ \E def \in ValidDefs \cup InvalidDefs \cup DuplicateIdDefs :
          registerPipeline(def)
    \/ \E id \in RegistryIds : unregisterPipeline(id)

SpecRegistry == InitRegistry /\ [][NextRegistry]_vars

(***************************************************************************)
(* Runs over what a caller may hand in: definitions that registerPipeline  *)
(* accepts and whose steps name an agent or a method the client lacks, or  *)
(* share an id, definitions with and without a defaultContext, and a       *)
(* context argument of runPipeline.  The engine has no policy engine, no   *)
(* approval hook and no observer, and the providers answer in time.        *)
(***************************************************************************)
PlainStep(k) == MkStep(StepKind("base", "user", FALSE, FALSE), k)

\* the first step of the definitions offered
FirstSteps ==
    {PlainStep(1), [PlainStep(1) EXCEPT !.continueOnError = TRUE]}
    \cup {[PlainStep(1) EXCEPT !.agent = "ghost", !.continueOnError = c] :
             c \in BOOLEAN}
    \cup {[PlainStep(1) EXCEPT !.method = "nope", !.continueOnError = c] :
             c \in BOOLEAN}

\* a step-output map left over from an earlier run
StaleOutputs == ("s9" :> Data("stale"))

DefaultContexts ==
    { [userPrompt |-> "default", selection |-> "lines", stepResults |-> StaleOutputs] }

ContextInputs ==
    { << >>,
      [userPrompt |-> "caller"],
      [userPrompt |-> "caller", stepResults |-> StaleOutputs],
      [language |-> "js"] }

InputDefs ==
    LET Bare == { [id |-> "p", requiresApproval |-> FALSE, steps |-> <<first, second>>] :
                    first \in FirstSteps, second \in {PlainStep(1), PlainStep(2)} }
    IN  Bare \cup {d @@ [defaultContext |-> dc] : d \in Bare, dc \in DefaultContexts}

InitInputs ==
    /\ pipelines = << >>
    /\ policyEngine = NoPolicyEngine
    /\ options = [autoApprove |-> FALSE, onApprovalRequired |-> FALSE,
                  onStepComplete |-> FALSE]
    /\ run = IdleRun
    /\ otherRun = IdleRun
    /\ lastCall = NoCall
    /\ lastCheck = NoCheck

NextInputs ==
    \/ /\ run.pc = "idle"
       /\ \E def \in {d \in InputDefs : d.id \notin DOMAIN pipelines} :
             registerPipeline(def)
    \/ \E id \in PipelineIds, context \in ContextInputs : runPipeline(id, context)
    \/ \E reply \in ProviderReplies : ProviderResolves(reply)
    \/ ProviderRejects

SpecInputs == InitInputs /\ [][NextInputs]_vars

(***************************************************************************)
(* The registry changed under a run: while a run of "p" is suspended at a  *)
(* provider call, "p" is registered again with another definition (other   *)
(* step ids, another number of steps) or unregistered.                     *)
(***************************************************************************)
\* definitions of "p" with one or two steps, whose step ids start at s1 or
\* at s4
MidRunDefs ==
    { [id |-> "p", requiresApproval |-> FALSE,
       steps |-> [k \in 1..n |->
                     [PlainStep(base + k) EXCEPT !.continueOnError = c]]] :
        n \in 1..2, base \in {0, 3}, c \in BOOLEAN }

NextMidRun ==
    \/ \E def \in MidRunDefs : registerPipeline(def)
    \/ \E id \in PipelineIds : unregisterPipeline(id)
    \/ \E id \in PipelineIds : runPipeline(id, << >>)
    \/ \E reply \in ProviderReplies : ProviderResolves(reply)
    \/ ProviderRejects

SpecMidRun == InitInputs /\ [][NextMidRun]_vars

(***************************************************************************)
(* Two calls of runPipeline in progress on one engine: run and otherRun    *)
(* hold the locals of the two calls, each suspended at its own provider    *)
(* call; the providers answer in any order.  The pipelines registered are  *)
(* "p" (a code generator step, then a terminal step) and "q" (a terminal   *)
(* step); either call may run either pipeline.                             *)
(***************************************************************************)
ConcurrentIds == {"p", "q"}

ConcurrentDefs ==
    { [id |-> "p", requiresApproval |-> FALSE,
       steps |-> <<MkStep(StepKind("codeGenerator", "user", TRUE, FALSE), 1),
                   MkStep(StepKind("terminalAgent", "user", TRUE, FALSE), 2)>>],
      [id |-> "q", requiresApproval |-> FALSE,
       steps |-> <<MkStep(StepKind("terminalAgent", "user", TRUE, FALSE), 3)>>] }

\* a runPipeline whose step-output map, StepResult list and action list are
\* those of the call already in progress
otherRunPipelineSharedLists(pipelineId, context) ==
    /\ otherRun.pc = "idle"
    /\ otherRun' =
         IF pipelineId \notin DOMAIN pipelines
         THEN Throw(otherRun, Err("Pipeline not found", 0))
         ELSE LET r == [StartRunOf(otherRun, pipelines[pipelineId], context)
                           EXCEPT !.stepOutputs = run.stepOutputs,
                                  !.stepResults = run.stepResults,
                                  !.actions = run.actions]
              IN  IF policyEngine.configured
                  THEN IF GateThrows(policyEngine.config)
                       THEN Throw(Log(r, "checkPipeline", 0), Err("TypeError", 0))
                       ELSE IF ~checkPipeline(policyEngine.config,
                                              r.pipeline.id).allowed
                       THEN Throw(Log(r, "checkPipeline", 0),
                                  Err("Pipeline blocked by policy", 0))
                       ELSE AfterPipelinePolicy(Log(r, "checkPipeline", 0))
                  ELSE AfterPipelinePolicy(r)
    /\ UNCHANGED <<pipelines, policyEngine, options, run, lastCall, lastCheck>>

\* the second call of runPipeline, up to its first suspension
otherRunPipeline(pipelineId, context) ==
    /\ otherRun.pc = "idle"
    /\ otherRun' =
         IF pipelineId \notin DOMAIN pipelines
         THEN Throw(otherRun, Err("Pipeline not found", 0))
         ELSE LET r == StartRunOf(otherRun, pipelines[pipelineId], context)
              IN  IF policyEngine.configured
                  THEN IF GateThrows(policyEngine.config)
                       THEN Throw(Log(r, "checkPipeline", 0), Err("TypeError", 0))
                       ELSE IF ~checkPipeline(policyEngine.config,
                                              r.pipeline.id).allowed
                       THEN Throw(Log(r, "checkPipeline", 0),
                                  Err("Pipeline blocked by policy", 0))
                       ELSE AfterPipelinePolicy(Log(r, "checkPipeline", 0))
                  ELSE AfterPipelinePolicy(r)
    /\ UNCHANGED <<pipelines, policyEngine, options, run, lastCall, lastCheck>>

\* the provider called by the second run answers before the deadline
OtherProviderResolves(reply) ==
    /\ otherRun.pc = "provider"
    /\ otherRun' = AfterProvider(otherRun, otherRun.i, reply)
    /\ UNCHANGED <<pipelines, policyEngine, options, run, lastCall, lastCheck>>

\* the provider called by the second run rejects before the deadline
OtherProviderRejects ==
    /\ otherRun.pc = "provider"
    /\ otherRun' = CatchStep(otherRun, otherRun.i, Err("provider error", 0))
    /\ UNCHANGED <<pipelines, policyEngine, options, run, lastCall, lastCheck>>

NextConcurrent ==
    \/ /\ run.pc = "idle" /\ otherRun.pc = "idle"
       /\ \E def \in {d \in ConcurrentDefs : d.id \notin DOMAIN pipelines} :
             registerPipeline(def)
    \/ \E id \in ConcurrentIds : runPipeline(id, << >>)
    \/ \E id \in ConcurrentIds : otherRunPipeline(id, << >>)
    \/ \E reply \in ProviderReplies : ProviderResolves(reply)
    \/ \E reply \in ProviderReplies : OtherProviderResolves(reply)
    \/ ProviderRejects
    \/ OtherProviderRejects

SpecConcurrent == InitInputs /\ [][NextConcurrent]_vars

(***************************************************************************)
(* Providers whose data carries a reasoning property: a string, the empty  *)
(* string, or a number.  The pipelines run have two steps, each of the     *)
(* code generator or of the terminal agent.                                *)
(***************************************************************************)
ActionDefs ==
    { [id |-> "p", requiresApproval |-> FALSE,
       steps |-> <<MkStep(StepKind(first, "user", c, FALSE), 1),
                   MkStep(StepKind(second, "user", c, FALSE), 2)>>] :
        first \in {"codeGenerator", "terminalAgent"},
        second \in {"codeGenerator", "terminalAgent"}, c \in BOOLEAN }

ReasoningValues ==
    { JsString("because"), JsString(""),
      [type |-> "number", text |-> "42"], [type |-> "number", text |-> "0"] }

ReasonedReplies ==
    { [success |-> TRUE, data |-> Data("ls -la") @@ [reasoning |-> value]] :
        value \in ReasoningValues }

NextActions ==
    \/ /\ run.pc = "idle"
       /\ \E def \in {d \in ActionDefs : d.id \notin DOMAIN pipelines} :
             registerPipeline(def)
    \/ \E id \in PipelineIds : runPipeline(id, << >>)
    \/ \E reply \in ProviderReplies \cup ReasonedReplies : ProviderResolves(reply)
    \/ ProviderRejects

SpecActions == InitInputs /\ [][NextActions]_vars

(***************************************************************************)
(* The policy gate on its own: a PolicyEngine built with the default       *)
(* policy or with a configuration without rules, rules added by addRule,   *)
(* and actions submitted to checkAction.                                   *)
(***************************************************************************)
MaxAddedRules == 2

EmptyPolicy ==
    [defaultEffect |-> "allow", defaultRequiresApproval |-> FALSE, rules |-> << >>]

\* a configuration without rules whose default effect is deny
DenyByDefault == [EmptyPolicy EXCEPT !.defaultEffect = "deny"]

\* the ids given to the rules handed to addRule: the n-th added rule is
\* named RuleIds[n]
RuleIds == <<"r1", "r2", "r3", "r4">>

AddedRuleIds == {RuleIds[n] : n \in DOMAIN RuleIds}

AddedCount(cfg) ==
    Cardinality({k \in 1..Len(cfg.rules) : cfg.rules[k].id \in AddedRuleIds})

FileTypes == {"CREATE_FILE", "MODIFY_FILE", "DELETE_FILE"}

ActionTypes == FileTypes \cup {"RUN_COMMAND"}

\* the action-scoped rules handed to addRule, under the id given
RuleInputs(id) ==
    { [Rule(id, "action", FileTypes, effect)
          EXCEPT !.has = {"deniedFiles"}, !.deniedFiles = <<"src/**">>] :
        effect \in {"allow", "deny"} }
    \cup
    { [Rule(id, "action", FileTypes, "allow")
          EXCEPT !.has = {"allowedFiles"}, !.allowedFiles = <<"src/**">>],
      [Rule(id, "action", {"RUN_COMMAND"}, "allow")
          EXCEPT !.has = {"deniedCommands"}, !.deniedCommands = <<"ls -la">>],
      [Rule(id, "action", {"RUN_COMMAND"}, "allow")
          EXCEPT !.has = {"allowedCommands"}, !.allowedCommands = <<"ls -la">>],
      [Rule(id, "action", ActionTypes, "allow")
          EXCEPT !.has = {"timeRestrictions"},
                 !.timeRestrictions = [hasHours |-> TRUE, startHour |-> 9,
                                       endHour |-> 17, hasDays |-> FALSE,
                                       daysOfWeek |-> {}]] }
    \cup
    { [Rule(id, "action", ActionTypes, "allow")
          EXCEPT !.has = {"requiresApproval"}, !.requiresApproval = ra] :
        ra \in BOOLEAN }

\* the pipeline- and agent-scoped rules handed to addRule, under the id given
ScopeRuleInputs(id) ==
    { Rule(id, scope[1], {scope[2]}, effect) :
        scope \in {<<"pipeline", "p">>, <<"agent", "base">>},
        effect \in {"allow", "deny"} }

\* the step-scoped rules handed to addRule, under the id given: their
\* target is the id of a step
StepRuleInputs(id) ==
    { Rule(id, "step", {"s1"}, effect) : effect \in {"allow", "deny"} }

\* the steps handed to checkStep
StepInputs ==
    { [id |-> StepIds[k], agent |-> agent] : k \in {1, 2}, agent \in ClientAgents }

\* the actions handed to checkAction
ActionInputs ==
    { [type |-> type, hasTargets |-> TRUE, targets |-> targets, command |-> "",
       reasoning |-> "test", requiresApproval |-> FALSE] :
        type \in {"CREATE_FILE", "DELETE_FILE"},
        targets \in {<<"src/newfile.js">>, <<".env">>, <<"secrets/api.key">>,
                     <<"src/newfile.js", "server.key">>,
                     <<"server.key", "src/newfile.js">>} }
    \cup
    { [type |-> "RUN_COMMAND", hasTargets |-> TRUE, targets |-> << >>,
       command |-> command, reasoning |-> "test", requiresApproval |-> FALSE] :
        command \in {"rm -rf /", "ls -la", "cd /tmp && rm -rf /"} }

\* the readings of the clock: [hour, day of week]
Clock == {[hour |-> 10, day |-> 1], [hour |-> 20, day |-> 1]}

NoClock == [hour |-> 0, day |-> 0]

InitPolicy ==
    /\ pipelines = << >>
    /\ policyEngine \in {[configured |-> TRUE, config |-> cfg] :
                            cfg \in {getDefaultPolicy, EmptyPolicy}}
    /\ options = [autoApprove |-> FALSE, onApprovalRequired |-> FALSE,
                  onStepComplete |-> FALSE]
    /\ run = IdleRun
    /\ otherRun = IdleRun
    /\ lastCall = NoCall
    /\ lastCheck = NoCheck

\* PolicyEngine.addRule
AddRule(rule) ==
    /\ AddedCount(policyEngine.config) < MaxAddedRules
    /\ policyEngine' = [policyEngine EXCEPT !.config = addRule(@, rule)]
    /\ lastCheck' = [NoCheck EXCEPT !.op = "addRule",
                                    !.config = addRule(policyEngine.config, rule)]
    /\ UNCHANGED <<pipelines, options, run, otherRun, lastCall>>

\* a call of PolicyEngine.checkAction
CheckAction(action, now) ==
    /\ lastCheck' = [op |-> "checkAction", config |-> policyEngine.config,
                     pattern |-> "", matched |-> FALSE, stepId |-> "",
                     subject |-> "", action |-> action, now |-> now,
                     threw |-> GateThrows(policyEngine.config),
                     result |-> IF GateThrows(policyEngine.config)
                                THEN AllowedResult
                                ELSE checkAction(policyEngine.config, action, now)]
    /\ UNCHANGED <<pipelines, policyEngine, options, run, otherRun, lastCall>>

\* a call of PolicyEngine.checkPipeline
CheckPipeline(pipelineId) ==
    /\ lastCheck' = [op |-> "checkPipeline", config |-> policyEngine.config,
                     pattern |-> "", matched |-> FALSE, stepId |-> "",
                     subject |-> pipelineId, action |-> NoAction, now |-> NoClock,
                     threw |-> GateThrows(policyEngine.config),
                     result |-> IF GateThrows(policyEngine.config)
                                THEN AllowedResult
                                ELSE checkPipeline(policyEngine.config, pipelineId)]
    /\ UNCHANGED <<pipelines, policyEngine, options, run, otherRun, lastCall>>

\* a call of PolicyEngine.checkStep; lastCheck records the agent of the
\* step as the subject, and the id of the step (the result recorded for a
\* call that threw is not a value the call returned)
CheckStep(step) ==
    /\ lastCheck' = [op |-> "checkStep", config |-> policyEngine.config,
                     pattern |-> "", matched |-> FALSE, stepId |-> step.id,
                     subject |-> step.agent, action |-> NoAction, now |-> NoClock,
                     threw |-> GateThrows(policyEngine.config),
                     result |-> IF GateThrows(policyEngine.config)
                                THEN AllowedResult
                                ELSE checkStep(policyEngine.config, step)]
    /\ UNCHANGED <<pipelines, policyEngine, options, run, otherRun, lastCall>>

NextRuleId == RuleIds[AddedCount(policyEngine.config) + 1]

NextPolicy ==
    \/ \E rule \in RuleInputs(NextRuleId) : AddRule(rule)
    \/ \E action \in ActionInputs, now \in Clock : CheckAction(action, now)

SpecPolicy == InitPolicy /\ [][NextPolicy]_vars

(***************************************************************************)
(* The policy gate under pipeline- and agent-scoped rules, with a default  *)
(* effect of allow (the default policy) or of deny.                        *)
(***************************************************************************)
InitScope ==
    /\ pipelines = << >>
    /\ policyEngine \in {[configured |-> TRUE, config |-> cfg] :
                            cfg \in {getDefaultPolicy, DenyByDefault}}
    /\ options = [autoApprove |-> FALSE, onApprovalRequired |-> FALSE,
                  onStepComplete |-> FALSE]
    /\ run = IdleRun
    /\ otherRun = IdleRun
    /\ lastCall = NoCall
    /\ lastCheck = NoCheck

NextScope ==
    \/ \E rule \in ScopeRuleInputs(NextRuleId) \cup StepRuleInputs(NextRuleId) :
          AddRule(rule)
    \/ \E id \in PipelineIds : CheckPipeline(id)
    \/ \E step \in StepInputs : CheckStep(step)
    \/ \E action \in ActionInputs, now \in Clock : CheckAction(action, now)

SpecScope == InitScope /\ [][NextScope]_vars

(***************************************************************************)
(* A PolicyEngine constructed with a configuration object that has no      *)
(* rules list: the object of the security guide and that of the CLI.  The  *)
(* constructor keeps the object it is given.  The gate is called directly  *)
(* and by runs of the pipelines registered.                                *)
(***************************************************************************)
BareConfigs ==
    { [requireApproval |-> FALSE],
      [fileWhitelist |-> <<"src/**">>, fileBlacklist |-> <<"**/.env">>,
       commandWhitelist |-> <<"ls -la">>, requireApproval |-> TRUE] }

InitBareConfig ==
    /\ pipelines = << >>
    /\ policyEngine \in {[configured |-> TRUE, config |-> cfg] : cfg \in BareConfigs}
    /\ options = [autoApprove |-> FALSE, onApprovalRequired |-> FALSE,
                  onStepComplete |-> FALSE]
    /\ run = IdleRun
    /\ otherRun = IdleRun
    /\ lastCall = NoCall
    /\ lastCheck = NoCheck

NextBareConfig ==
    \/ /\ run.pc = "idle"
       /\ \E def \in {d \in LiveDefs : d.id \notin DOMAIN pipelines} :
             registerPipeline(def)
    \/ \E id \in PipelineIds : runPipeline(id, << >>)
    \/ \E id \in PipelineIds : CheckPipeline(id)
    \/ \E step \in StepInputs : CheckStep(step)
    \/ \E action \in ActionInputs, now \in Clock : CheckAction(action, now)

SpecBareConfig == InitBareConfig /\ [][NextBareConfig]_vars

(***************************************************************************)
(* Rule management: addRule with rules under ids chosen by the caller (an  *)
(* id may be given twice), and removeRule.                                 *)
(***************************************************************************)
\* Array.findIndex(r => r.id === ruleId): 0 stands for -1
findIndex(rules, ruleId) ==
    IF \E k \in DOMAIN rules : rules[k].id = ruleId
    THEN CHOOSE k \in DOMAIN rules :
            /\ rules[k].id = ruleId
            /\ \A m \in 1..(k - 1) : rules[m].id # ruleId
    ELSE 0

\* PolicyEngine.removeRule: the configuration after the call
removeRule(cfg, ruleId) ==
    LET index == findIndex(cfg.rules, ruleId)
    IN  IF index # 0
        THEN [cfg EXCEPT !.rules = SubSeq(@, 1, index - 1)
                                    \o SubSeq(@, index + 1, Len(@))]
        ELSE cfg

\* PolicyEngine.getRules
getRules(cfg) == cfg.rules

ManagedRuleIds == {"r1", "r2"}

RemovedRuleIds == ManagedRuleIds \cup {"r3", "deny-secrets"}

\* a call of PolicyEngine.removeRule; lastCheck.matched is what it returned
RemoveRule(ruleId) ==
    /\ policyEngine' = [policyEngine EXCEPT !.config = removeRule(@, ruleId)]
    /\ lastCheck' = [NoCheck EXCEPT
                        !.op = "removeRule", !.subject = ruleId,
                        !.matched = findIndex(policyEngine.config.rules, ruleId) # 0,
                        !.config = removeRule(policyEngine.config, ruleId)]
    /\ UNCHANGED <<pipelines, options, run, otherRun, lastCall>>

NextRules ==
    \/ \E id \in ManagedRuleIds : \E rule \in ScopeRuleInputs(id) : AddRule(rule)
    \/ \E ruleId \in RemovedRuleIds : RemoveRule(ruleId)

SpecRules == InitPolicy /\ [][NextRules]_vars

(***************************************************************************)
(* Command patterns that RegExp rejects: rules whose deniedCommands or     *)
(* allowedCommands hold such a pattern, alone or before a pattern that is  *)
(* well formed, and checkAction on commands.                               *)
(***************************************************************************)
\* patterns for which new RegExp throws a SyntaxError: an unterminated
\* group, and a quantifier with nothing to repeat
MalformedPatterns == {"rm (", "*ls"}

RegexRuleInputs(id) ==
    { [Rule(id, "action", {"RUN_COMMAND"}, "deny")
          EXCEPT !.has = {"deniedCommands"}, !.deniedCommands = patterns] :
        patterns \in {<<"rm (", "ls -la">>, <<"*ls">>, <<"rm -rf /">>} }
    \cup
    { [Rule(id, "action", {"RUN_COMMAND"}, "allow")
          EXCEPT !.has = {"allowedCommands"}, !.allowedCommands = patterns] :
        patterns \in {<<"*ls", "ls -la">>, <<"rm (">>} }

RegexActionInputs ==
    { [type |-> "RUN_COMMAND", hasTargets |-> TRUE, targets |-> << >>,
       command |-> command, reasoning |-> "test", requiresApproval |-> FALSE] :
        command \in {"ls -la", "rm -rf /", "rm ("} }

NextRegex ==
    \/ \E rule \in RegexRuleInputs(NextRuleId) : AddRule(rule)
    \/ \E action \in RegexActionInputs :
          CheckAction(action, [hour |-> 10, day |-> 1])

SpecRegex == InitPolicy /\ [][NextRegex]_vars

(***************************************************************************)
(* Time restrictions: rules of either effect with a window of hours, a set *)
(* of weekdays, or both, and checkAction at several readings of the clock. *)
(***************************************************************************)
Weekdays == {1, 2, 3, 4, 5}

TimeRestrictionInputs ==
    { [hasHours |-> TRUE, startHour |-> 9, endHour |-> 17,
       hasDays |-> FALSE, daysOfWeek |-> {}],
      [hasHours |-> FALSE, startHour |-> 0, endHour |-> 0,
       hasDays |-> TRUE, daysOfWeek |-> Weekdays],
      [hasHours |-> TRUE, startHour |-> 9, endHour |-> 17,
       hasDays |-> TRUE, daysOfWeek |-> Weekdays] }

\* the rules handed to addRule, under the id given
TimeRuleInputs(id) ==
    { [Rule(id, "action", {type}, effect)
          EXCEPT !.has = {"timeRestrictions"}, !.timeRestrictions = tr] :
        type \in {"CREATE_FILE", "RUN_COMMAND"}, effect \in {"allow", "deny"},
        tr \in TimeRestrictionInputs }

\* the readings of the clock: the hours around the ends of the window, on a
\* Monday and on a Sunday
TimeClock ==
    { [hour |-> h, day |-> d] : h \in {8, 9, 16, 17}, d \in {0, 1} }

TimeActionInputs ==
    {a \in ActionInputs :
        \/ a.type = "CREATE_FILE" /\ a.targets = <<"src/newfile.js">>
        \/ a.type = "RUN_COMMAND" /\ a.command = "ls -la"}

NextTime ==
    \/ \E rule \in TimeRuleInputs(NextRuleId) : AddRule(rule)
    \/ \E action \in TimeActionInputs, now \in TimeClock : CheckAction(action, now)

SpecTime == InitPolicy /\ [][NextTime]_vars

(***************************************************************************)
(* PolicyEngine.matchGlob on its own, called with a path and a pattern.    *)
(***************************************************************************)
GlobPaths ==
    {".env", "server.key", "cert.pem", "credentials/token", "project/.env",
     "src/.env", "a/b/.env", "src/file.js", "src/app.js", "secrets/api.key",
     "project/secrets/api.key", "config/secrets/key.pem"}

GlobPatterns ==
    {"**/.env", "**/.env.*", "**/secrets/**", "**/credentials/**", "**/*.key",
     "**/*.pem", "**/id_rsa*", "src/**", "*.js", "src/*", "src/?pp.js",
     "src/**/app.js"}

\* a call of PolicyEngine.matchGlob
MatchGlob(str, pattern) ==
    /\ lastCheck' = [NoCheck EXCEPT !.op = "matchGlob", !.subject = str,
                                    !.pattern = pattern,
                                    !.matched = matchGlob(str, pattern)]
    /\ UNCHANGED <<pipelines, policyEngine, options, run, otherRun, lastCall>>

NextGlob == \E str \in GlobPaths, pattern \in GlobPatterns : MatchGlob(str, pattern)

SpecGlob == InitPolicy /\ [][NextGlob]_vars

(***************************************************************************)
(* Properties.                                                             *)
(***************************************************************************)
Steps == run.pipeline.steps

\* the run did op for step k
Called(op, k) ==
    \E n \in DOMAIN run.calls : run.calls[n].step = k /\ run.calls[n].op = op

CallCount(op, k) ==
    Cardinality({n \in DOMAIN run.calls :
                    run.calls[n].step = k /\ run.calls[n].op = op})

\* op for step k was done before op2 for step k2
Before(op, k, op2, k2) ==
    \E n \in DOMAIN run.calls :
        /\ run.calls[n].step = k2 /\ run.calls[n].op = op2
        /\ \E m \in 1..(n - 1) : run.calls[m].step = k /\ run.calls[m].op = op

\* the positions in the result of the StepResults of step k
ResultsOf(k) ==
    {j \in DOMAIN run.stepResults : run.stepResults[j].stepId = Steps[k].id}

\* step k failed because its provider returned success=false, or because of
\* a policy denial, an approval rejection, a timeout or a provider exception
ListedFailure(k) ==
    \E j \in ResultsOf(k) :
        /\ ~run.stepResults[j].success
        /\ \/ run.stepResults[j].hasActions
           \/ run.stepResults[j].error.msg \in
                 {"Step blocked by policy", "Step execution rejected by user",
                  "Step timeout", "provider error"}

StepDenied(k) ==
    policyEngine.configured /\ ~checkStep(policyEngine.config, Steps[k]).allowed

\* C1: when step k fails (in one of the listed ways) with
\* continueOnError=false, the returned result holds the StepResults of
\* exactly the steps 1..k in declaration order, no provider of a later step
\* was invoked, and success is false.
C1_HaltsAtFailedStep ==
    \A k \in 1..Len(Steps) :
        (run.pc = "returned" /\ ~Steps[k].continueOnError /\ ListedFailure(k))
        => /\ Len(run.stepResults) = k
           /\ \A j \in 1..k : run.stepResults[j].stepId = Steps[j].id
           /\ \A n \in DOMAIN run.calls :
                 run.calls[n].op = "provider" => run.calls[n].step <= k
           /\ ~run.pipelineSuccess

\* C2: in a pipeline [A, B, C] where B has continueOnError=true and fails
\* (in one of the listed ways), the result has 3 StepResults, B's marked
\* failed, and C's provider is invoked whatever C's input source is.  Stated
\* for the runs without an observer in which A succeeded and C is neither
\* denied by policy nor rejected by the approver.
C2_ContinuesPastFailedStep ==
    ( /\ run.pc = "returned"
      /\ Len(Steps) = 3
      /\ ~options.onStepComplete
      /\ Steps[2].continueOnError
      /\ Len(run.stepResults) >= 2
      /\ run.stepResults[1].success
      /\ ListedFailure(2)
      /\ ~StepDenied(3)
      /\ ~Called("rejected", 3) )
    => /\ Len(run.stepResults) = 3
       /\ run.stepResults[2].stepId = Steps[2].id
       /\ ~run.stepResults[2].success
       /\ Called("provider", 3)

\* C3: steps are attempted in declaration order and never overlap: what the
\* run does never goes back to an earlier step, the policy check, approval
\* request and provider call of step k+1 come after the StepResult of step k
\* was appended, and while the run waits on step i no StepResult of step i
\* or of a later step exists.
C3_StepsInOrder ==
    /\ \A n \in DOMAIN run.calls :
          /\ n > 1 => run.calls[n - 1].step <= run.calls[n].step
          /\ ( /\ run.calls[n].step >= 2
               /\ run.calls[n].op \in {"checkStep", "requestApproval", "provider"} )
             => \E m \in 1..(n - 1) :
                    /\ run.calls[m].step = run.calls[n].step - 1
                    /\ run.calls[m].op = "stepResult"
    /\ run.pc \in {"stepApproval", "provider"}
          => /\ \A n \in DOMAIN run.calls : run.calls[n].step <= run.i
             /\ ~Called("stepResult", run.i)
             /\ \A k \in 1..(run.i - 1) : Called("stepResult", k)

C3_Witness ==
    /\ run.pc = "provider"
    /\ run.i = 3
    /\ Called("provider", 1)
    /\ Called("provider", 2)
    /\ Len(run.stepResults) = 2

\* C4: with a policy engine configured, every action of the returned result
\* is one that checkAction allows.
C4_ActionsPassPolicy ==
    (policyEngine.configured /\ run.pc = "returned")
    => \A a \in DOMAIN run.actions : \A now \in Clock :
          checkAction(policyEngine.config, run.actions[a], now).allowed

\* C5: a provider is invoked only after checkStep allowed the step and, when
\* the step requires approval and autoApprove is off, after the approval was
\* given; a step denied by policy has no approval request and no provider
\* call, a rejected step has no provider call, and both are recorded as
\* failed StepResults.
C5_ProviderBehindGates ==
    \A k \in 1..Len(Steps) :
        /\ Called("provider", k)
             => /\ policyEngine.configured
                     => /\ Before("checkStep", k, "provider", k)
                        /\ ~StepDenied(k)
                /\ (Steps[k].requiresApproval /\ ~options.autoApprove)
                     => /\ Before("requestApproval", k, "provider", k)
                        /\ Before("approved", k, "provider", k)
        /\ (Called("checkStep", k) /\ StepDenied(k))
             => /\ ~Called("requestApproval", k)
                /\ ~Called("provider", k)
                /\ \E j \in ResultsOf(k) : ~run.stepResults[j].success
        /\ Called("rejected", k)
             => /\ ~Called("provider", k)
                /\ \E j \in ResultsOf(k) : ~run.stepResults[j].success

C5_Witness ==
    /\ policyEngine.configured
    /\ \E k \in 1..Len(Steps) : Called("rejected", k)
    /\ \E k \in 1..Len(Steps) : StepDenied(k) /\ Called("checkStep", k)
    /\ \E k \in 1..Len(Steps) : Called("approved", k) /\ Called("provider", k)

\* the pipeline-level policy check was made and denied the pipeline
PipelineDenied ==
    /\ policyEngine.configured
    /\ Called("checkPipeline", 0)
    /\ ~checkPipeline(policyEngine.config, run.pipeline.id).allowed

\* C6: when the pipeline-level policy check denies, or the pipeline-level
\* approval is rejected, the run ends with no step executed: no StepResult,
\* no step-level policy check, approval request or provider call; and after
\* a policy denial the pipeline-level approval is not requested.
C6_PipelineGateStopsRun ==
    (PipelineDenied \/ Called("rejected", 0))
    => /\ run.pc \in {"returned", "thrown"}
       /\ run.stepResults = << >>
       /\ \A n \in DOMAIN run.calls : run.calls[n].step = 0
       /\ PipelineDenied => ~Called("requestApproval", 0)

C6_Witness ==
    /\ Called("rejected", 0)
    /\ Len(Steps) >= 1
    /\ run.pc = "thrown"

\* C7: runPipeline throws only for an unregistered pipeline id; every other
\* failure is reported in the returned result.
C7_OnlyLookupErrorsEscape ==
    run.pc = "thrown" => run.error.msg = "Pipeline not found"

\* the deadline of step k: step.timeout || options.defaultTimeout
StepDeadline(k) ==
    IF Steps[k].timeout # 0 THEN Steps[k].timeout ELSE defaultTimeout

\* every step whose timer won the race has one failed StepResult carrying
\* the timeout error and no step output, and the run halted at it or went on
TimedOutHandled ==
    \A k \in 1..Len(Steps) :
        Called("timeout", k)
        => /\ Cardinality(ResultsOf(k)) = 1
           /\ \A j \in ResultsOf(k) :
                 /\ ~run.stepResults[j].success
                 /\ run.stepResults[j].error = Err("Step timeout", StepDeadline(k))
           /\ Steps[k].id \notin DOMAIN run.stepOutputs
           /\ ~Steps[k].continueOnError
                 => /\ run.pc = "returned"
                    /\ ~run.pipelineSuccess
                    /\ run.pipelineError = Err("Step timeout", StepDeadline(k))
                    /\ \A n \in DOMAIN run.calls : run.calls[n].step <= k
           /\ (Steps[k].continueOnError /\ k < Len(Steps))
                 => \E n \in DOMAIN run.calls : run.calls[n].step = k + 1
           /\ (Steps[k].continueOnError /\ k = Len(Steps))
                 => run.pc = "returned"

\* C8: a step whose deadline (step.timeout, else the default timeout)
\* expires before its provider completes fails with the timeout error and is
\* handled per continueOnError; the provider's late response changes neither
\* the StepResults, nor the step-output map, nor the action list.
C8_TimeoutIsFinal ==
    [][ /\ TimedOutHandled'
        /\ (run'.abandoned # run.abandoned /\ run'.abandoned \subseteq run.abandoned)
             => /\ run'.stepResults = run.stepResults
                /\ run'.stepOutputs = run.stepOutputs
                /\ run'.actions = run.actions ]_vars

C8_Witness ==
    \E k \in 1..Len(Steps) :
        /\ Called("timeout", k)
        /\ k \notin run.abandoned
        /\ Steps[k].continueOnError
        /\ Called("provider", k + 1)

DeniedFileRules(cfg, action) ==
    {k \in 1..Len(cfg.rules) :
        /\ cfg.rules[k].appliesTo = "action"
        /\ action.type \in cfg.rules[k].target
        /\ "deniedFiles" \in cfg.rules[k].has
        /\ action.hasTargets
        /\ \E t \in 1..Len(action.targets), p \in 1..Len(cfg.rules[k].deniedFiles) :
              matchGlob(action.targets[t], cfg.rules[k].deniedFiles[p])}

\* C10: checkAction denies an action when one of its targets matches a
\* denied-file glob of a rule that applies to the action's type, whatever
\* the effect of that rule, and the reason cites the id of a matched rule.
C10_DeniedFileAlwaysDenies ==
    (lastCheck.op = "checkAction"
       /\ DeniedFileRules(lastCheck.config, lastCheck.action) # {})
    => /\ ~lastCheck.result.allowed
       /\ lastCheck.result.reason.rule \in
             {lastCheck.config.rules[k].id :
                 k \in DeniedFileRules(lastCheck.config, lastCheck.action)}

\* does the rule apply to the action's type
Applies(rule, action) ==
    rule.appliesTo = "action" /\ action.type \in rule.target

\* the whitelist rules applying to the action's type that declare
\* allowed-file patterns none of which matches one of the action's targets
UnlistedFileRules(cfg, action) ==
    {k \in 1..Len(cfg.rules) :
        /\ Applies(cfg.rules[k], action)
        /\ cfg.rules[k].effect = "allow"
        /\ "allowedFiles" \in cfg.rules[k].has
        /\ action.hasTargets
        /\ \E t \in 1..Len(action.targets) :
              \A p \in 1..Len(cfg.rules[k].allowedFiles) :
                  ~matchGlob(action.targets[t], cfg.rules[k].allowedFiles[p])}

\* C11: checkAction denies an action when a whitelist rule applying to its
\* type declares allowed-file patterns and one of its targets matches none
\* of them, wherever that target stands in the list of targets.
C11_UnlistedFileDenies ==
    (lastCheck.op = "checkAction"
       /\ UnlistedFileRules(lastCheck.config, lastCheck.action) # {})
    => ~lastCheck.result.allowed

\* the rules applying to the action's type one of whose denied-command
\* patterns matches the action's command
DeniedCommandRules(cfg, action) ==
    {k \in 1..Len(cfg.rules) :
        /\ Applies(cfg.rules[k], action)
        /\ "deniedCommands" \in cfg.rules[k].has
        /\ \E p \in 1..Len(cfg.rules[k].deniedCommands) :
              matchRegex(action.command, cfg.rules[k].deniedCommands[p])}

\* the rules applying to the action's type that declare allowed-command
\* patterns none of which matches the action's command
UnlistedCommandRules(cfg, action) ==
    {k \in 1..Len(cfg.rules) :
        /\ Applies(cfg.rules[k], action)
        /\ "allowedCommands" \in cfg.rules[k].has
        /\ \A p \in 1..Len(cfg.rules[k].allowedCommands) :
              ~matchRegex(action.command, cfg.rules[k].allowedCommands[p])}

\* C12: checkAction denies an action carrying a command when the command
\* matches a denied-command pattern of a rule applying to the action's type,
\* and when such a rule declares allowed-command patterns none of which the
\* command matches.
C12_CommandPatternsDeny ==
    ( /\ lastCheck.op = "checkAction"
      /\ lastCheck.action.command # ""
      /\ \/ DeniedCommandRules(lastCheck.config, lastCheck.action) # {}
         \/ UnlistedCommandRules(lastCheck.config, lastCheck.action) # {} )
    => ~lastCheck.result.allowed

\* the scope of the rules that a check of the pipeline or of a step reads
ScopeOf(op) == IF op = "checkPipeline" THEN "pipeline" ELSE "agent"

\* the rules of the scope that name the subject
MatchingRules(cfg, scope, name) ==
    {k \in 1..Len(cfg.rules) :
        cfg.rules[k].appliesTo = scope /\ name \in cfg.rules[k].target}

\* those among them whose effect is deny
DenyingRules(cfg, scope, name) ==
    {k \in MatchingRules(cfg, scope, name) : cfg.rules[k].effect = "deny"}

\* C13: checkPipeline, and checkStep for the agent-scoped rules, deny
\* exactly when a rule matching the subject has effect deny, whatever rules
\* were registered before it, and the reason names the first such rule in
\* registration order.
C13_AnyDenyRuleDenies ==
    lastCheck.op \in {"checkPipeline", "checkStep"}
    => LET denying == DenyingRules(lastCheck.config, ScopeOf(lastCheck.op),
                                   lastCheck.subject)
       IN  /\ ~lastCheck.result.allowed <=> denying # {}
           /\ denying # {}
                => \E k \in denying :
                      /\ \A h \in denying : k <= h
                      /\ lastCheck.result.reason.rule = lastCheck.config.rules[k].id

\* no rule of the configuration matches the subject of the latest check
NoRuleMatches ==
    IF lastCheck.op = "checkAction"
    THEN \A k \in 1..Len(lastCheck.config.rules) :
            ~Applies(lastCheck.config.rules[k], lastCheck.action)
    ELSE MatchingRules(lastCheck.config, ScopeOf(lastCheck.op),
                       lastCheck.subject) = {}

\* C14: when no rule matches the subject, checkPipeline, checkStep and
\* checkAction decide by the default effect of the policy: allowed with
\* 'allow', denied with 'deny'.
C14_DefaultEffectDecides ==
    ( /\ lastCheck.op \in {"checkPipeline", "checkStep", "checkAction"}
      /\ NoRuleMatches )
    => (lastCheck.result.allowed <=> lastCheck.config.defaultEffect = "allow")

\* the rules applying to the action's type that specify requiresApproval
ApprovalRules(cfg, action) ==
    {k \in 1..Len(cfg.rules) :
        Applies(cfg.rules[k], action) /\ "requiresApproval" \in cfg.rules[k].has}

\* C15: for an allowed action, the requiresApproval that checkAction returns
\* is the one of the last rule, in registration order, that applies to the
\* action's type and specifies it, and the policy's defaultRequiresApproval
\* if no applicable rule specifies it.
C15_LastApprovalRuleWins ==
    (lastCheck.op = "checkAction" /\ lastCheck.result.allowed)
    => LET specifying == ApprovalRules(lastCheck.config, lastCheck.action)
       IN  /\ lastCheck.result.hasRequiresApproval
           /\ specifying = {}
                => lastCheck.result.requiresApproval
                     = lastCheck.config.defaultRequiresApproval
           /\ \A k \in specifying :
                 (\A h \in specifying : h <= k)
                 => lastCheck.result.requiresApproval
                      = lastCheck.config.rules[k].requiresApproval

C15_Witness ==
    /\ lastCheck.op = "checkAction"
    /\ lastCheck.result.allowed
    /\ lastCheck.config.defaultRequiresApproval
    /\ ~lastCheck.result.requiresApproval
    /\ \E k, h \in ApprovalRules(lastCheck.config, lastCheck.action) :
          /\ k < h
          /\ lastCheck.config.rules[k].requiresApproval
          /\ ~lastCheck.config.rules[h].requiresApproval

RECURSIVE RefGlob(_, _, _, _)
\* the reference matcher: does p[i..] match all of s[j..], where a segment
\* '**' of the pattern stands for zero or more whole segments of the path,
\* '*' for a run of characters other than '/', '?' for one character
RefGlob(p, i, s, j) ==
    LET stars == i < Len(p) /\ p[i] = "*" /\ p[i + 1] = "*"
        opens == i = 1 \/ p[i - 1] = "/"
        segStart == j = 1 \/ s[j - 1] = "/"
    IN  IF i > Len(p) THEN j > Len(s)
        ELSE IF stars /\ opens /\ i + 1 = Len(p)
        THEN segStart
        ELSE IF stars /\ opens /\ p[i + 2] = "/"
        THEN /\ segStart
             /\ \/ RefGlob(p, i + 3, s, j)
                \/ \E n \in j..Len(s) : s[n] = "/" /\ RefGlob(p, i, s, n + 1)
        ELSE IF p[i] = "/" /\ i + 2 = Len(p) /\ p[i + 1] = "*" /\ p[i + 2] = "*"
        THEN j > Len(s) \/ s[j] = "/"
        ELSE IF p[i] = "*"
        THEN \/ RefGlob(p, i + 1, s, j)
             \/ j <= Len(s) /\ s[j] # "/" /\ RefGlob(p, i, s, j + 1)
        ELSE /\ j <= Len(s)
             /\ p[i] = "?" \/ p[i] = s[j]
             /\ RefGlob(p, i + 1, s, j + 1)

\* C16: matchGlob(path, pattern) is the reference glob matcher, anchored to
\* the whole path: '**' matches zero or more whole path segments ('**/.env'
\* matches '.env' and 'a/b/.env'), '*' matches a run of characters inside
\* one segment, '?' matches one character.
C16_GlobIsReference ==
    lastCheck.op = "matchGlob"
    => lastCheck.matched
         = RefGlob(Chars(lastCheck.pattern), 1, Chars(lastCheck.subject), 1)

\* the configuration is the default policy, possibly with rules added
FromDefaultPolicy(cfg) ==
    /\ Len(cfg.rules) >= Len(getDefaultPolicy.rules)
    /\ SubSeq(cfg.rules, 1, Len(getDefaultPolicy.rules)) = getDefaultPolicy.rules

\* a file named '.env', a file ending in '.key' or '.pem', or a file inside
\* a directory 'secrets' or 'credentials', at any depth
SecretLooking(path) ==
    \E pattern \in {"**/.env", "**/*.key", "**/*.pem", "**/secrets/**",
                    "**/credentials/**"} :
        RefGlob(Chars(pattern), 1, Chars(path), 1)

\* C17: under the default policy every CREATE_FILE, MODIFY_FILE or
\* DELETE_FILE action with a secret-looking target is denied, at every
\* directory depth, the project root included.
C17_SecretsDeniedAtEveryDepth ==
    ( /\ lastCheck.op = "checkAction"
      /\ FromDefaultPolicy(lastCheck.config)
      /\ lastCheck.action.type \in FileTypes
      /\ \E t \in 1..Len(lastCheck.action.targets) :
            SecretLooking(lastCheck.action.targets[t]) )
    => ~lastCheck.result.allowed

\* does the string sub occur in the string s
Contains(s, sub) ==
    \E j \in 0..(Len(Chars(s)) - Len(Chars(sub))) :
        SubSeq(Chars(s), j + 1, j + Len(Chars(sub))) = Chars(sub)

\* C18: under the default policy a RUN_COMMAND action whose command contains
\* 'rm -rf /' is denied (by the rule on dangerous commands), and an action
\* that matches no deny pattern, such as CREATE_FILE on 'src/newfile.js', is
\* allowed.
C18_DefaultPolicyDecisions ==
    lastCheck.op = "checkAction"
    => /\ ( /\ FromDefaultPolicy(lastCheck.config)
            /\ lastCheck.action.type = "RUN_COMMAND"
            /\ Contains(lastCheck.action.command, "rm -rf /") )
          => /\ ~lastCheck.result.allowed
             /\ lastCheck.result.reason.rule = "deny-dangerous-commands"
       /\ ( /\ lastCheck.config = getDefaultPolicy
            /\ DeniedFileRules(lastCheck.config, lastCheck.action) = {}
            /\ DeniedCommandRules(lastCheck.config, lastCheck.action) = {} )
          => lastCheck.result.allowed
       /\ ( /\ lastCheck.config = getDefaultPolicy
            /\ lastCheck.action.type = "CREATE_FILE"
            /\ lastCheck.action.targets = <<"src/newfile.js">> )
          => lastCheck.result.allowed

C18_Witness ==
    /\ lastCheck.op = "checkAction"
    /\ lastCheck.config = getDefaultPolicy
    /\ lastCheck.action.type = "RUN_COMMAND"
    /\ lastCheck.action.command = "cd /tmp && rm -rf /"
    /\ ~lastCheck.result.allowed

LacksField(obj, f) == f \notin DOMAIN obj \/ obj[f] = ""

InvalidDefinition(def) ==
    \/ LacksField(def, "id")
    \/ "steps" \notin DOMAIN def
    \/ \E k \in DOMAIN def.steps :
          \E f \in {"id", "agent", "method", "inputFrom"} :
              LacksField(def.steps[k], f)

\* C20: registerPipeline throws for a definition that lacks an id, lacks a
\* steps array, or has a step missing an id, agent, method or inputFrom, and
\* the registry is then unchanged: getPipeline returns for every id what it
\* returned before, and no id becomes registered.
C20_InvalidRegistrationRejected ==
    [][ ( /\ lastCall'.op = "registerPipeline"
          /\ InvalidDefinition(lastCall'.def) )
        => /\ ~lastCall'.returned
           /\ lastCall'.threw # ""
           /\ DOMAIN pipelines' = DOMAIN pipelines
           /\ \A id \in RegistryIds : getPipeline(id)' = getPipeline(id) ]_vars

\* an invalid definition was given under an id that has a definition stored
C20_Witness ==
    /\ lastCall.op = "registerPipeline"
    /\ InvalidDefinition(lastCall.def)
    /\ ~lastCall.returned
    /\ lastCall.id \in DOMAIN pipelines
    /\ "steps" \in DOMAIN lastCall.def
    /\ \E k \in DOMAIN pipelines[lastCall.id].steps :
          k \in DOMAIN lastCall.def.steps
          /\ pipelines[lastCall.id].steps[k] # lastCall.def.steps[k]

\* C21: runPipeline on an id that is not registered (never registered, or
\* unregistered since) fails with the not-found error and produces no
\* StepResult, no policy check, no approval request and no provider call.
\* (The registry does not change while the run is in progress.)
C21_UnregisteredRunFails ==
    (run.pc # "idle" /\ PipelineIds \cap DOMAIN pipelines = {})
    => /\ run.pc = "thrown"
       /\ run.error.msg = "Pipeline not found"
       /\ run.stepResults = << >>
       /\ run.calls = << >>
       /\ run.actions = << >>

\* the id was registered, then unregistered, then run
C21_Witness ==
    /\ run.pc = "thrown"
    /\ run.error.msg = "Pipeline not found"
    /\ lastCall.op = "unregisterPipeline"
    /\ lastCall.returned

\* C22: a successful registerPipeline makes getPipeline(id) return the
\* definition just given and leaves the other ids alone; unregisterPipeline
\* makes getPipeline(id) return undefined, leaves the other ids alone and
\* returns true exactly when the id was registered at the time of the call;
\* listPipelines has exactly one entry per registered id.  (Step by step,
\* this is the claim about any sequence of such calls.)
C22_RegistryLastWriteWins ==
    [][ /\ (lastCall'.op = "registerPipeline" /\ lastCall'.returned)
           => /\ MapGet(pipelines', lastCall'.id) = lastCall'.def
              /\ \A id \in RegistryIds \ {lastCall'.id} :
                    getPipeline(id)' = getPipeline(id)
        /\ lastCall'.op = "unregisterPipeline"
           => /\ MapGet(pipelines', lastCall'.id) = NoPipeline
              /\ lastCall'.returned = (MapGet(pipelines, lastCall'.id) # NoPipeline)
              /\ \A id \in RegistryIds \ {lastCall'.id} :
                    getPipeline(id)' = getPipeline(id)
        /\ {e.id : e \in listPipelines'} =
              {id \in RegistryIds : getPipeline(id)' # NoPipeline}
        /\ Cardinality(listPipelines') =
              Cardinality({id \in RegistryIds : getPipeline(id)' # NoPipeline})
      ]_vars

\* a registration returned while the other id holds another definition
C22_Witness ==
    /\ lastCall.op = "registerPipeline"
    /\ lastCall.returned
    /\ DOMAIN pipelines = RegistryIds
    /\ pipelines[lastCall.id] = lastCall.def
    /\ lastCall.def.steps[1].agent = "codeGenerator"
    /\ \E id \in RegistryIds \ {lastCall.id} :
          pipelines[id].steps[1].agent = "terminalAgent"

\* C23: every definition held in the registry has pairwise distinct step
\* ids.
C23_StepIdsUnique ==
    \A id \in DOMAIN pipelines :
        \A j, k \in DOMAIN pipelines[id].steps :
            j # k => pipelines[id].steps[j].id # pipelines[id].steps[k].id

\* C24: addRule appends the rule to the list; removeRule(id) that returns
\* true leaves the list without any rule of that id, the remaining rules in
\* their order; removeRule of an absent id returns false and leaves the
\* list unchanged.
C24_RuleListKeepsOrder ==
    [][ LET before == getRules(policyEngine.config)
            after == getRules(policyEngine'.config)
            Kept(rule) == rule.id # lastCheck'.subject
        IN  /\ lastCheck'.op = "addRule"
               => /\ Len(after) = Len(before) + 1
                  /\ SubSeq(after, 1, Len(before)) = before
            /\ lastCheck'.op = "removeRule"
               => /\ lastCheck'.matched
                     = (\E k \in DOMAIN before : before[k].id = lastCheck'.subject)
                  /\ after = SelectSeq(before, Kept)
      ]_vars

\* the loop of the run entered step k
Attempted(k) == \E n \in DOMAIN run.calls : run.calls[n].step = k

\* C25: the returned result holds exactly one StepResult for each step that
\* was attempted, in declaration order, and none for the other steps,
\* whatever the observer of step completions does.
C25_OneResultPerAttemptedStep ==
    run.pc = "returned"
    => /\ \A k \in 1..Len(Steps) :
             Cardinality(ResultsOf(k)) = IF Attempted(k) THEN 1 ELSE 0
       /\ \A j \in DOMAIN run.stepResults :
             /\ j <= Len(Steps)
             /\ run.stepResults[j].stepId = Steps[j].id

\* the run returned after a failed StepResult of a step with
\* continueOnError=false
HaltedAtFailure ==
    /\ run.pc = "returned"
    /\ \E k \in 1..Len(Steps) :
          /\ ~Steps[k].continueOnError
          /\ \E j \in ResultsOf(k) : ~run.stepResults[j].success

\* C26: when the run stops because a step with continueOnError=false failed,
\* by throwing or by its provider returning success=false, the result has
\* success=false and its error field holds the (non-empty) terminal error.
C26_TerminalErrorRecorded ==
    HaltedAtFailure
    => /\ ~run.pipelineSuccess
       /\ run.pipelineError # NoError
       /\ run.pipelineError.msg # ""

\* C27: a step that fails, by throwing or by returning success=false, has
\* exactly one StepResult, an entry under its id in the step-output map, and
\* the observer of step completions (when there is one) was invoked for it.
C27_ThrowHandledLikeFailure ==
    \A k \in 1..Len(Steps) :
        (\E j \in ResultsOf(k) : ~run.stepResults[j].success)
        => /\ Cardinality(ResultsOf(k)) = 1
           /\ Steps[k].id \in DOMAIN run.stepOutputs
           /\ options.onStepComplete => Called("onStepComplete", k)

\* step k names an agent or a method that the client does not provide
UnknownProvider(k) ==
    Steps[k].agent \notin ClientAgents \/ Steps[k].method \notin ClientMethods

\* C28: a step naming an agent or operation that the client does not
\* provide makes runPipeline throw a not-found error, whatever the step's
\* continueOnError: no provider is invoked for that step and no later step
\* is attempted.
C28_UnknownProviderIsFatal ==
    \A k \in 1..Len(Steps) :
        (UnknownProvider(k) /\ Attempted(k))
        => /\ run.pc = "thrown"
           /\ run.error.msg \in {"Agent not found", "Method not found"}
           /\ ~Called("provider", k)
           /\ \A m \in (k + 1)..Len(Steps) : ~Attempted(m)

\* C29: during a run the step-output map only grows: an entry, once
\* written, is neither overwritten nor removed by a later step.
C29_StepOutputsOnlyGrow ==
    [][ run.pc # "idle"
        => \A id \in DOMAIN run.stepOutputs :
              /\ id \in DOMAIN run'.stepOutputs
              /\ run'.stepOutputs[id] = run.stepOutputs[id] ]_vars

\* the caller's context and the defaults of the pipeline of the run
CallerContext == run.contextArg
PipelineDefaults == DefaultContextOf(run.pipeline)

\* C30: the execution context of a run is the pipeline's defaultContext
\* overridden field by field by the caller's context (a caller field wins
\* over the default of the same name), and its step-output map starts
\* empty: a stepResults field given by the caller or by the defaults is
\* discarded, so the map only ever holds outputs of steps of this run.
C30_ContextMerge ==
    (run.pc # "idle" /\ run.pipeline # NoPipeline)
    => /\ DOMAIN run.context =
             (DOMAIN PipelineDefaults \cup DOMAIN CallerContext) \ {"stepResults"}
       /\ \A f \in DOMAIN run.context :
             run.context[f] = IF f \in DOMAIN CallerContext THEN CallerContext[f]
                              ELSE PipelineDefaults[f]
       /\ \A id \in DOMAIN run.stepOutputs :
             \E j \in DOMAIN run.stepResults : run.stepResults[j].stepId = id
       /\ run.calls = << >> => run.stepOutputs = << >>

\* caller and defaults both give userPrompt and stepResults; a step has run
C30_Witness ==
    /\ run.pc = "returned"
    /\ "userPrompt" \in DOMAIN CallerContext
    /\ "userPrompt" \in DOMAIN PipelineDefaults
    /\ "stepResults" \in DOMAIN CallerContext
    /\ "stepResults" \in DOMAIN PipelineDefaults
    /\ run.context.userPrompt = "caller"
    /\ run.context.selection = "lines"
    /\ DOMAIN run.stepOutputs = {"s1", "s2"}

\* the clock reading is outside the window of the rule's time restriction:
\* the hour outside [startHour, endHour), or the weekday not in daysOfWeek
OutsideWindow(rule, now) ==
    /\ "timeRestrictions" \in rule.has
    /\ \/ /\ rule.timeRestrictions.hasHours
          /\ now.hour \notin
                rule.timeRestrictions.startHour..(rule.timeRestrictions.endHour - 1)
       \/ /\ rule.timeRestrictions.hasDays
          /\ now.day \notin rule.timeRestrictions.daysOfWeek

\* the applicable rules whose time restriction excludes the clock reading
OutsideWindowRules(cfg, action, now) ==
    {k \in 1..Len(cfg.rules) :
        Applies(cfg.rules[k], action) /\ OutsideWindow(cfg.rules[k], now)}

\* C31: an action is denied when an applicable rule carries a time
\* restriction whose window excludes the current hour or weekday, whatever
\* the effect of the rule; and a denial for the time of day or the day of
\* week is given only when such a rule exists (inside the window the
\* restriction never denies).
C31_TimeWindowDenies ==
    lastCheck.op = "checkAction"
    => /\ OutsideWindowRules(lastCheck.config, lastCheck.action, lastCheck.now) # {}
          => ~lastCheck.result.allowed
       /\ ( /\ ~lastCheck.result.allowed
            /\ lastCheck.result.reason.kind \in {"outsideHours", "outsideDays"} )
          => OutsideWindowRules(lastCheck.config, lastCheck.action,
                                lastCheck.now) # {}

\* an allow rule denies at 17:00, the end of its window, after a deny rule
\* whose window of weekdays holds
C31_Witness ==
    /\ lastCheck.op = "checkAction"
    /\ lastCheck.now = [hour |-> 17, day |-> 1]
    /\ ~lastCheck.result.allowed
    /\ lastCheck.result.reason.kind = "outsideHours"
    /\ \E k \in OutsideWindowRules(lastCheck.config, lastCheck.action, lastCheck.now) :
          /\ lastCheck.config.rules[k].effect = "allow"
          /\ \E j \in 1..(k - 1) :
                /\ Applies(lastCheck.config.rules[j], lastCheck.action)
                /\ lastCheck.config.rules[j].effect = "deny"
                /\ "timeRestrictions" \in lastCheck.config.rules[j].has

\* the rules of scope 'step' with effect deny whose target names the step id
StepDenyRules(cfg, stepId) ==
    {k \in 1..Len(cfg.rules) :
        /\ cfg.rules[k].appliesTo = "step"
        /\ stepId \in cfg.rules[k].target
        /\ cfg.rules[k].effect = "deny"}

WellFormed(pattern) == pattern \notin MalformedPatterns

\* the configuration without the malformed command patterns of its rules
WithoutMalformed(cfg) ==
    [cfg EXCEPT !.rules =
        [k \in DOMAIN cfg.rules |->
            [cfg.rules[k] EXCEPT
                !.deniedCommands = SelectSeq(@, WellFormed),
                !.allowedCommands = SelectSeq(@, WellFormed)]]]

\* C33: a malformed command pattern in a rule is treated as matching no
\* command, and evaluation continues with the remaining patterns and rules:
\* checkAction returns the decision it returns for the same rules without
\* their malformed patterns, and never denies a command for matching one.
C33_MalformedPatternMatchesNothing ==
    lastCheck.op = "checkAction"
    => /\ lastCheck.result =
             checkAction(WithoutMalformed(lastCheck.config), lastCheck.action,
                         lastCheck.now)
       /\ lastCheck.result.reason.kind = "deniedCommand"
             => WellFormed(lastCheck.result.reason.pattern)

\* a command is denied by the well-formed pattern that follows a malformed
\* one in the same rule
C33_Witness ==
    /\ lastCheck.op = "checkAction"
    /\ lastCheck.action.command = "ls -la"
    /\ ~lastCheck.result.allowed
    /\ lastCheck.result.reason.kind = "deniedCommand"
    /\ lastCheck.result.reason.pattern = "ls -la"
    /\ \E k \in DOMAIN lastCheck.config.rules :
          /\ lastCheck.config.rules[k].id = lastCheck.result.reason.rule
          /\ lastCheck.config.rules[k].deniedCommands = <<"rm (", "ls -la">>


\* the steps for which the run called a provider, in the order of the calls
RECURSIVE ProviderCalls(_)
ProviderCalls(calls) ==
    IF calls = << >> THEN << >>
    ELSE LET rest == ProviderCalls(Tail(calls))
         IN  IF Head(calls).op = "provider" THEN <<Head(calls).step>> \o rest
             ELSE rest

\* C34: a run that has started keeps the definition it looked up at its
\* start, whatever is registered or unregistered under its id while it is
\* suspended: its StepResults are those of the steps of that definition, in
\* that definition's order, its providers are called for steps 1, 2, ... of
\* that definition, and a run that returns without halting at a failure has
\* attempted every step of it.
C34_RunKeepsItsDefinition ==
    [][ /\ (run.pc = "idle" /\ run'.pc \notin {"idle", "thrown"})
           => run'.pipeline = MapGet(pipelines, run'.pipeline.id)
        /\ run.pc # "idle" => run'.pipeline = run.pipeline
        /\ run'.pc \notin {"idle", "thrown"}
           => /\ Len(run'.stepResults) <= Len(run'.pipeline.steps)
              /\ \A j \in DOMAIN run'.stepResults :
                    run'.stepResults[j].stepId = run'.pipeline.steps[j].id
              /\ ProviderCalls(run'.calls) \in
                    {[k \in 1..n |-> k] : n \in 0..Len(run'.pipeline.steps)}
              /\ (run'.pc = "returned" /\ run'.pipelineSuccess)
                    => Len(run'.stepResults) = Len(run'.pipeline.steps)
      ]_vars

\* a run of a two-step definition is suspended at its second provider call
\* while the registry holds no definition, or a one-step definition with
\* other step ids, under its id
C34_Witness ==
    /\ run.pc = "provider"
    /\ run.i = 2
    /\ Len(Steps) = 2
    /\ \/ run.pipeline.id \notin DOMAIN pipelines
       \/ /\ run.pipeline.id \in DOMAIN pipelines
          /\ Len(pipelines[run.pipeline.id].steps) = 1
          /\ pipelines[run.pipeline.id].steps[1].id # Steps[1].id


\* the actions of the StepResults of a list, concatenated
RECURSIVE ActionsOf(_)
ActionsOf(results) ==
    IF results = << >> THEN << >>
    ELSE Head(results).actions \o ActionsOf(Tail(results))

\* the step-output map, StepResult list and action list of call r hold what
\* the steps of r's own pipeline produced, and nothing else
OwnOutputsOnly(r) ==
    /\ Len(r.stepResults) <= Len(r.pipeline.steps)
    /\ Len(r.stepResults) =
          Cardinality({n \in DOMAIN r.calls : r.calls[n].op = "stepResult"})
    /\ \A j \in DOMAIN r.stepResults :
          LET step == r.pipeline.steps[j]
              result == r.stepResults[j]
          IN  /\ result.stepId = step.id
              /\ result.hasActions
                    => result.actions = extractActions(step, result.data, j)
    /\ DOMAIN r.stepOutputs =
          {r.stepResults[j].stepId :
              j \in {i \in DOMAIN r.stepResults : r.stepResults[i].hasActions}}
    /\ \A id \in DOMAIN r.stepOutputs :
          \E j \in DOMAIN r.stepResults :
              /\ r.stepResults[j].stepId = id
              /\ r.stepResults[j].data = r.stepOutputs[id]
    /\ r.actions = ActionsOf(r.stepResults)

\* C35: under every interleaving of two calls of runPipeline on one engine,
\* of the same or of different pipelines, each call's step-output map,
\* StepResult list and action list contain only the outputs of that call's
\* own steps.
C35_RunsShareNoState ==
    /\ run.pc \notin {"idle", "thrown"} => OwnOutputsOnly(run)
    /\ otherRun.pc \notin {"idle", "thrown"} => OwnOutputsOnly(otherRun)

\* both calls are suspended at a provider call, each after a step that
\* produced an action; one runs "p" and has begun its second step, the
\* other has started after it and runs "p" or "q"
C35_Witness ==
    /\ run.pc = "provider" /\ run.i = 2 /\ Len(run.actions) = 1
    /\ otherRun.pc = "provider" /\ otherRun.i = 1
    /\ Len(run.stepResults) = 1 /\ Len(otherRun.stepResults) = 0


\* what the claim requires of an action: the approval flag set, and a
\* reasoning that is a string and is not empty
CarriesReasoning(action) ==
    /\ action.requiresApproval
    /\ action.reasoningType = "string"
    /\ action.reasoning # ""

\* C36: every action of every StepResult and of the result's action list
\* has requiresApproval=true and a non-empty reasoning string, whatever the
\* provider returned.
C36_ActionsCarryReasoning ==
    /\ \A j \in DOMAIN run.stepResults :
          \A a \in DOMAIN run.stepResults[j].actions :
              CarriesReasoning(run.stepResults[j].actions[a])
    /\ \A a \in DOMAIN run.actions : CarriesReasoning(run.actions[a])


\* step k is flagged for approval and its attempt came to the approval
\* stage of executeStep: its input was built (from the caller's prompt,
\* which cannot fail) and the policy gate did not deny it
CameToApproval(k) ==
    /\ Steps[k].requiresApproval
    /\ Steps[k].inputFrom = "user"
    /\ Attempted(k)
    /\ ~StepDenied(k)

\* the run was stopped by a rejected approval request
StoppedByRejection ==
    \/ \E n \in DOMAIN run.calls : run.calls[n].op = "rejected"
    \/ run.error.msg = "Pipeline execution rejected by user"
    \/ \E j \in DOMAIN run.stepResults :
          run.stepResults[j].error.msg = "Step execution rejected by user"

\* C37: with autoApprove on, the approval hook is never consulted and the
\* flagged pipelines and steps proceed to the provider; with autoApprove off
\* and no hook, a flagged pipeline or step counts as approved and the
\* provider of the step is invoked; with autoApprove off and a hook, the
\* hook is consulted exactly once for each attempt of a flagged step that
\* came to the approval stage, and after its falsy answer the provider of
\* the step is not called.
C37_ApprovalModes ==
    /\ options.autoApprove
       => /\ \A n \in DOMAIN run.calls : run.calls[n].op # "requestApproval"
          /\ ~StoppedByRejection
          /\ \A k \in 1..Len(Steps) : CameToApproval(k) => Called("provider", k)
    /\ (~options.autoApprove /\ ~options.onApprovalRequired)
       => /\ ~StoppedByRejection
          /\ run.pc \notin {"pipelineApproval", "stepApproval"}
          /\ \A k \in 1..Len(Steps) : CameToApproval(k) => Called("provider", k)
    /\ (~options.autoApprove /\ options.onApprovalRequired)
       => \A k \in 1..Len(Steps) :
             /\ CameToApproval(k) => CallCount("requestApproval", k) = 1
             /\ ~Steps[k].requiresApproval => CallCount("requestApproval", k) = 0
             /\ Called("rejected", k)
                   => /\ ~Called("provider", k)
                      /\ \E j \in ResultsOf(k) :
                            run.stepResults[j].error.msg =
                               "Step execution rejected by user"
             /\ (CameToApproval(k) /\ Called("approved", k))
                   => Called("provider", k)
             /\ (CameToApproval(k) /\ Called("provider", k))
                   => Before("approved", k, "provider", k)

\* an engine without approval hook and with autoApprove off has run a
\* flagged pipeline up to the provider call of a flagged step
C37_Witness ==
    /\ ~options.autoApprove /\ ~options.onApprovalRequired
    /\ run.pipeline.requiresApproval
    /\ \E k \in 1..Len(Steps) : CameToApproval(k) /\ Called("provider", k)


\* C38: a returned result has success=false exactly when the run stopped at
\* a failed step whose continueOnError is false; when every step that
\* failed has continueOnError=true the result has success=true and error
\* null, although some of its StepResults have success=false.
C38_SuccessFlag ==
    run.pc = "returned"
    => /\ ~run.pipelineSuccess <=> HaltedAtFailure
       /\ ~run.pipelineSuccess
             => /\ ~run.stepResults[Len(run.stepResults)].success
                /\ \E k \in 1..Len(Steps) :
                      /\ ~Steps[k].continueOnError
                      /\ Steps[k].id = run.stepResults[Len(run.stepResults)].stepId
       /\ (\A j \in DOMAIN run.stepResults :
              run.stepResults[j].success
              \/ \A k \in 1..Len(Steps) :
                    Steps[k].id = run.stepResults[j].stepId
                    => Steps[k].continueOnError)
          => /\ run.pipelineSuccess
             /\ run.pipelineError = NoError

\* a run returned success=true and error null with a failed StepResult of a
\* step with continueOnError=true among its results
C38_Witness ==
    /\ run.pc = "returned"
    /\ run.pipelineSuccess
    /\ run.pipelineError = NoError
    /\ \E j \in DOMAIN run.stepResults : ~run.stepResults[j].success
    /\ Len(run.stepResults) >= 2


\* the steps that the run attempted stay within its pipeline: every call it
\* made is for the pipeline (0) or for one of its steps, and it holds no
\* more StepResults of a step than the one of the attempt and the one of
\* the catch block
WithinPipeline ==
    /\ \A n \in DOMAIN run.calls : run.calls[n].step \in 0..Len(Steps)
    /\ \A k \in 1..Len(Steps) :
          /\ CallCount("provider", k) <= 1
          /\ Cardinality(ResultsOf(k)) <= 2

\* C39: a run that has started eventually returns or throws, also when a
\* provider never answers, given that the timers fire and that the approval
\* hook and the observer return; and the steps it attempts are steps of its
\* pipeline, each attempted once.
C39_RunTerminates ==
    /\ [](run.pc \notin {"idle", "thrown"} => WithinPipeline)
    /\ (run.pc \in {"pipelineApproval", "stepApproval", "provider", "observer"})
          ~> (run.pc \in {"returned", "thrown"})

\* a run of two steps returned after the timers of both steps fired
C39_Witness ==
    /\ run.pc = "returned"
    /\ Len(Steps) = 2
    /\ Called("timeout", 1)
    /\ Called("timeout", 2)


\* C40: with a PolicyEngine whose configuration object has no rules list,
\* checkPipeline, checkStep and checkAction return a decision instead of
\* throwing, and a run of a registered pipeline gets past the pipeline-level
\* policy check to its first step.
C40_ConfigWithoutRulesDecides ==
    GateThrows(policyEngine.config)
    => /\ lastCheck.op \in {"checkPipeline", "checkStep", "checkAction"}
             => ~lastCheck.threw
       /\ run.pc = "thrown" => run.error.msg = "Pipeline not found"

=============================================================================
